---------------------------- MODULE Spec2Model ----------------------------
(***************************************************************************)
(* A model of the cpr conditional preprocessing engine:                    *)
(*   - the hide-set macro expander (frontend/expand/iterative.rs),         *)
(*   - the preprocessor expression algebra, simplifier and constant folder *)
(*     (parser/expr/mod.rs),                                               *)
(*   - the include driver and the conditional walker (parser/mod.rs),      *)
(*   - the chunker exercised by parser/test_chunks.rs.                     *)
(* Each subsystem has its own specification over the shared variables.     *)
(***************************************************************************)
EXTENDS Integers, Sequences, FiniteSets, TLC

VARIABLES
    pc,      \* expander: "idle" | "run" | "done" | "error" | "capped"
    cx,      \* expander: name of the macro context in use
    input,   \* expander: the token sequence expand was called with
    is,      \* expander: pending input of expand (the chained iterator)
    os,      \* expander: output buffer of expand
    err,     \* expander: the ExpandError returned, "" when none
    last,    \* expander: record of the latest macro invocation expanded
    sx,      \* simplifier: the Expr simplify is called on
    sr,      \* simplifier: "pending", the Expr returned, or the failed assertion
    disk,             \* includes: the dependencies of each file that exists
    unit_queue,       \* includes: the work queue of parse_all
    ordered_includes, \* includes: Parser::ordered_includes
    sources,          \* includes: the keys of Parser::sources
    pstate,           \* includes: "idle" | "run" | "ok" | "NotFound"
    run,              \* includes: 1 for the first run over disk, 2 for the second
    first_run,        \* includes: state and ordered_includes the first run ended with
    unit,        \* chunker: the lines of the unit
    line_n,      \* chunker: n of ParsedUnit::parse, the number of lines read
    def_ranges,  \* chunker: the stack of open predicates, the base True first
    last_if,     \* chunker: Option<predicate of the last #if>, <<>> for None
    atoms,       \* chunker: the closed ranges with content, in order
    chunks,      \* chunker: the Vec<Chunk> returned by chunks()
    cstate,      \* chunker: "idle" | "parse" | "parsed" | "ok" | "CouldNotKnit" | "panic"
    fs,        \* resolver: the paths that exist, each <<directory, file name>>
    paths,     \* resolver: system_paths, quoted_paths, working_path of the Parser
    rcur,      \* resolver: the path of the file whose #include is being read
    rlast,     \* resolver: the latest read_include: the including file, the
               \*           Include and the Option<PathBuf> resolve returned
    rstate,    \* resolver: "idle" | "run" | "NotFound"
    tree,      \* parse_2: the lines of each file that read_include finds
    frames,    \* parse_2: the activations of parse_2, the innermost last
    reads,     \* parse_2: how often read_include returned each file
    defines,   \* parse_2: Context::defines, the bucket of each defined name
    forwarded, \* parse_2: every line pushed to a block so far, as expanded
    p2state,   \* parse_2: "idle" | "run" | "ok" | "NotFound" | "capped", or the
               \*          message of the panic
    fctx,      \* constant_fold: the SymbolState of each name in the Context
    fx,        \* constant_fold: the Expr constant_fold is called on
    fr,        \* constant_fold: "pending", the Expr returned, or the panic
    vx,        \* operators: the left (or only) operand
    vy,        \* operators: the right operand
    vops,      \* operators: the operators applied so far, "&", "|" or "!"
    vr         \* operators: "pending", or the Expr the latest operator returned

expVars == <<pc, cx, input, is, os, err, last>>
simpVars == <<sx, sr>>
incVars == <<disk, unit_queue, ordered_includes, sources, pstate, run, first_run>>
chunkVars == <<unit, line_n, def_ranges, last_if, atoms, chunks, cstate>>
resVars == <<fs, paths, rcur, rlast, rstate>>
p2Vars == <<tree, frames, reads, defines, forwarded, p2state>>
foldVars == <<fctx, fx, fr>>
algVars == <<vx, vy, vops, vr>>
vars ==
    <<expVars, simpVars, incVars, chunkVars, resVars, p2Vars, foldVars, algVars>>
\* What a step of the expander leaves alone.
notExpand ==
    <<simpVars, incVars, chunkVars, resVars, p2Vars, foldVars, algVars>>
\* What a step of the simplifier leaves alone.
notSimplify ==
    <<expVars, incVars, chunkVars, resVars, p2Vars, foldVars, algVars>>
\* What a step of the include driver leaves alone.
notInclude ==
    <<expVars, simpVars, chunkVars, resVars, p2Vars, foldVars, algVars>>
\* What a step of the chunker leaves alone.
notChunk ==
    <<expVars, simpVars, incVars, resVars, p2Vars, foldVars, algVars>>
\* What a step of the include resolver leaves alone.
notResolve ==
    <<expVars, simpVars, incVars, chunkVars, p2Vars, foldVars, algVars>>
\* What a step of constant_fold leaves alone.
notFold ==
    <<expVars, simpVars, incVars, chunkVars, resVars, p2Vars, algVars>>
\* What a step of the Expr operators leaves alone.
notAlgebra ==
    <<expVars, simpVars, incVars, chunkVars, resVars, p2Vars, foldVars>>
\* What a step of parse_2 leaves alone.
notParse2 ==
    <<expVars, simpVars, incVars, chunkVars, resVars, foldVars, algVars>>

(***************************************************************************)
(* Bounds of the model.                                                    *)
(***************************************************************************)
MaxInputLen == 3
MaxOut == 9
MaxTerms == 3
MaxDeps == 2
MaxLines == 5
MaxFiles == 3
MaxRootLines == 3
MaxDepth == 4
MaxDefLines == 4
MaxLit == 2
MaxInt == 64

(***************************************************************************)
(* Tokens.  Text is a sequence of one-character strings, so that pasting   *)
(* and stringizing build new text and equality of names is equality of     *)
(* spellings.  A THS is a token with its hide set hs.  dv, re and of are   *)
(* history fields: the macros whose definitions were applied along the     *)
(* derivation of the token, whether one of them was applied twice, and the *)
(* macro from whose replacement list the token was read (<<>> if none).    *)
(***************************************************************************)
T(k, v) == [k |-> k, v |-> v, hs |-> {}, dv |-> {}, re |-> FALSE, of |-> <<>>]
NameT(v) == T("Name", v)
IntT(v) == T("Int", v)
StrT(v) == T("Str", v)
PunT(c) == T("Pun", <<c>>)
WS == T("WS", <<>>)
Stringize == T("Stringize", <<>>)
Paste == T("Paste", <<>>)
Defined == T("Defined", <<>>)

Digits == {"0", "1", "2", "3", "4", "5", "6", "7", "8", "9"}

RECURSIVE Flatten(_)
Flatten(ss) == IF ss = <<>> THEN <<>> ELSE Head(ss) \o Flatten(Tail(ss))

\* Token as Display: the printable form used by stringizing and pasting.
Display(tok) ==
    CASE tok.k = "Str" -> <<"\"">> \o tok.v \o <<"\"">>
      [] tok.k = "WS" -> <<" ">>
      [] tok.k = "Stringize" -> <<"#">>
      [] tok.k = "Paste" -> <<"#", "#">>
      [] tok.k = "Defined" -> <<"d", "e", "f", "i", "n", "e", "d">>
      [] OTHER -> tok.v

DisplayAll(toks) == Flatten([i \in 1..Len(toks) |-> Display(toks[i])])

\* The bare tokens of a THS sequence (what the tests compare).
B(k, v) == [k |-> k, v |-> v]
Bare(toks) == [i \in 1..Len(toks) |-> B(toks[i].k, toks[i].v)]

hs_union(a, b) == a \cup b
hs_intersection(a, b) == a \cap b

\* THS::hides: the token is a name that its own hide set contains.
hides(tok) == tok.k = "Name" /\ tok.v \in tok.hs

RECURSIVE StripZeros(_)
StripZeros(d) == IF Len(d) > 1 /\ Head(d) = "0" THEN StripZeros(Tail(d)) ELSE d

\* The lexer's rule for a single token, applied to pasted text.
Relex(text) ==
    IF text # <<>> /\ \A i \in 1..Len(text) : text[i] \in Digits
    THEN [k |-> "Int", v |-> StripZeros(text)]
    ELSE IF text # <<>> /\ text[1] \notin Digits
              /\ \A i \in 1..Len(text) : text[i] \notin {"(", ")", ",", "+", "*", " ", "\"", "#"}
         THEN [k |-> "Name", v |-> text]
         ELSE [k |-> "Other", v |-> text]

\* THS::glue: one token spelled display(l) ++ display(r), hide set hs(l) /\ hs(r).
glue(l, r) ==
    LET t == Relex(Display(l) \o Display(r))
    IN [k |-> t.k, v |-> t.v, hs |-> hs_intersection(l.hs, r.hs),
        dv |-> l.dv \cup r.dv, re |-> l.re \/ r.re, of |-> <<>>]

(***************************************************************************)
(* Macro definitions and contexts.  A definition is object-like (fn =      *)
(* FALSE) or function-like with formal parameters fp (name -> index is the *)
(* position in fp, from 0) and a replacement list value.  The contexts are *)
(* those of the expander's tests and of the cases the claims name.         *)
(***************************************************************************)
nFOO == <<"F", "O", "O">>
nFO == <<"F", "O">>
nO == <<"O">>
nADD == <<"A", "D", "D">>
nADJ == <<"A", "D", "J">>
nM == <<"M">>
nF == <<"f">>
nG == <<"g">>
nS == <<"S">>
nS2 == <<"S", "2">>
nP == <<"P">>
nEMPTY == <<"E">>
nX == <<"x">>
nY == <<"y">>
nA == <<"a">>
nB == <<"b">>
nFoo == <<"f", "o", "o">>
nBar == <<"b", "a", "r">>
nD == <<"D">>
nQ == <<"Q">>
nH == <<"H">>
nN == <<"N">>
nL == <<"L">>

ObjectLike(value) == [fn |-> FALSE, fp |-> <<>>, value |-> value]
FunctionLike(fp, value) == [fn |-> TRUE, fp |-> fp, value |-> value]

CtxIds == {"add", "hide", "selfarg", "selfpaste", "strgz", "adj", "paste",
           "mutual", "empty", "defd", "badstr"}

\* The macro table of each context: name -> definition.
Defs(id) ==
    CASE id = "add" ->      \* #define ADD(x,y) x+y
           (nADD :> FunctionLike(<<nX, nY>>, <<NameT(nX), PunT("+"), NameT(nY)>>))
      [] id = "hide" ->     \* #define FOO(x) FOO()
           (nFOO :> FunctionLike(<<nX>>, <<NameT(nFOO), PunT("("), PunT(")")>>))
      [] id = "selfarg" ->  \* #define FOO(x) x(x)
           (nFOO :> FunctionLike(<<nX>>,
                        <<NameT(nX), PunT("("), NameT(nX), PunT(")")>>))
      [] id = "selfpaste" -> \* #define FOO FO ## O
           (nFOO :> ObjectLike(<<NameT(nFO), WS, Paste, WS, NameT(nO)>>))
      [] id = "strgz" ->    \* #define S(x) # x    #define S2(x, y) # x # y
           (nS :> FunctionLike(<<nX>>, <<Stringize, WS, NameT(nX)>>))
           @@ (nS2 :> FunctionLike(<<nX, nY>>,
                        <<Stringize, WS, NameT(nX), WS, Stringize, WS, NameT(nY)>>))
      [] id = "adj" ->      \* #define ADJ(a, b) a b    #define M "b"
           (nADJ :> FunctionLike(<<nA, nB>>, <<NameT(nA), WS, NameT(nB)>>))
           @@ (nM :> ObjectLike(<<StrT(<<"b">>)>>))
      [] id = "paste" ->    \* #define P(x, y) x ## y
           (nP :> FunctionLike(<<nX, nY>>, <<NameT(nX), WS, Paste, WS, NameT(nY)>>))
      [] id = "mutual" ->   \* #define f(a) a*g    #define g(a) f(a)
           (nF :> FunctionLike(<<nA>>, <<NameT(nA), PunT("*"), NameT(nG)>>))
           @@ (nG :> FunctionLike(<<nA>>,
                        <<NameT(nF), PunT("("), NameT(nA), PunT(")")>>))
      [] id = "empty" ->    \* #define E()
           (nEMPTY :> FunctionLike(<<>>, <<>>))
      [] id = "defd" ->     \* #define FOO 2    #define D(x) defined x
           (nFOO :> ObjectLike(<<IntT(<<"2">>)>>))
           @@ (nD :> FunctionLike(<<nX>>, <<Defined, WS, NameT(nX)>>))
      [] id = "badstr" ->   \* #define Q(x) # y    #define H # foo
                            \* #define N(x) # 1    #define L(x) x #
           (nQ :> FunctionLike(<<nX>>, <<Stringize, WS, NameT(nY)>>))
           @@ (nH :> ObjectLike(<<Stringize, WS, NameT(nFoo)>>))
           @@ (nN :> FunctionLike(<<nX>>, <<Stringize, WS, IntT(<<"1">>)>>))
           @@ (nL :> FunctionLike(<<nX>>, <<NameT(nX), WS, Stringize>>))

\* Context::lookup: Defined(def) or Undefined.
IsDefined(id, name) == name \in DOMAIN Defs(id)

\* Expandable2::as_ths for a replacement list: every token starts with an
\* empty hide set.  The history fields record the application that reads it.
as_ths(value, dv, re, name) ==
    [i \in 1..Len(value) |-> [value[i] EXCEPT !.dv = dv, !.re = re, !.of = name]]

(***************************************************************************)
(* skip_ws: skip whitespace, pushing the skipped tokens to saved.          *)
(* next is the token found (a sequence of length 0 or 1, for Option).      *)
(***************************************************************************)
RECURSIVE WsPrefix(_)
WsPrefix(s) ==
    IF s # <<>> /\ Head(s).k = "WS" THEN 1 + WsPrefix(Tail(s)) ELSE 0

\* A skip that does not keep the whitespace it skips.
skip_wsForgetful(s, saved) ==
    LET n == WsPrefix(s)
    IN [saved |-> saved,
        next |-> IF n < Len(s) THEN <<s[n + 1]>> ELSE <<>>,
        rest |-> SubSeq(s, n + 2, Len(s))]
skip_ws(s, saved) ==
    LET n == WsPrefix(s)
    IN [saved |-> saved \o SubSeq(s, 1, n),
        next |-> IF n < Len(s) THEN <<s[n + 1]>> ELSE <<>>,
        rest |-> SubSeq(s, n + 2, Len(s))]

(***************************************************************************)
(* parse_actuals, starting after the opening parenthesis.                  *)
(***************************************************************************)
IsPun(tok, c) == tok.k = "Pun" /\ tok.v = <<c>>

\* ParsedActuals::push: append to the last actual.
PushActual(actuals, tok) ==
    [actuals EXCEPT ![Len(actuals)] = Append(@, tok)]

RECURSIVE TrimFront(_)
TrimFront(arg) ==
    IF arg # <<>> /\ Head(arg).k = "WS" THEN TrimFront(Tail(arg)) ELSE arg

RECURSIVE TrimBack(_)
TrimBack(arg) ==
    IF arg # <<>> /\ arg[Len(arg)].k = "WS"
    THEN TrimBack(SubSeq(arg, 1, Len(arg) - 1)) ELSE arg

\* A trim that leaves the trailing whitespace of an actual in place.
TrimFrontOnly(arg) == TrimFront(arg)
\* The trimming loop at the end of parse_actuals.
TrimActual(arg) == TrimBack(TrimFront(arg))

RECURSIVE ParseLoop(_, _, _, _, _)
ParseLoop(s, depth, actuals, closparen_hs, saved) ==
    IF depth = 0
    THEN [ok |-> TRUE, err |-> "",
          actuals |-> [i \in 1..Len(actuals) |-> TrimActual(actuals[i])],
          closparen_hs |-> closparen_hs, saved |-> saved, rest |-> s]
    ELSE IF s = <<>>
    THEN [ok |-> FALSE, err |-> "UnclosedMacroInvocation",
          actuals |-> <<>>, closparen_hs |-> {}, saved |-> saved, rest |-> s]
    ELSE LET tok == Head(s)
             sv == Append(saved, tok)
         IN IF depth = 1
            THEN CASE IsPun(tok, ",") ->
                        ParseLoop(Tail(s), depth, Append(actuals, <<>>),
                                  closparen_hs, sv)
                   [] IsPun(tok, "(") ->
                        ParseLoop(Tail(s), depth + 1, PushActual(actuals, tok),
                                  closparen_hs, sv)
                   [] IsPun(tok, ")") ->
                        ParseLoop(Tail(s), depth - 1, actuals, tok.hs, sv)
                   [] OTHER ->
                        ParseLoop(Tail(s), depth, PushActual(actuals, tok),
                                  closparen_hs, sv)
            ELSE ParseLoop(Tail(s),
                           CASE IsPun(tok, "(") -> depth + 1
                             [] IsPun(tok, ")") -> depth - 1
                             [] OTHER -> depth,
                           PushActual(actuals, tok), closparen_hs, sv)

parse_actuals(s, saved) == ParseLoop(s, 1, <<<<>>>>, {}, saved)

(***************************************************************************)
(* Params: formal parameters fp and actual parameters ap of an invocation  *)
(* (has = FALSE stands for None, an object-like macro).                    *)
(***************************************************************************)
NoParams == [has |-> FALSE, fp |-> <<>>, ap |-> <<>>]
SomeParams(fp, ap) == [has |-> TRUE, fp |-> fp, ap |-> ap]

\* A lookup that takes a missing actual for an empty one.
lookupLenient(P, name) ==
    IF \E i \in 1..Len(P.fp) : P.fp[i] = name
    THEN LET index == (CHOOSE i \in 1..Len(P.fp) : P.fp[i] = name) - 1
         IN [t |-> "some",
             sel |-> IF index < Len(P.ap) THEN P.ap[index + 1] ELSE <<>>]
    ELSE [t |-> "none", sel |-> <<>>]
\* Params::lookup: "some" with the actual at the parameter's index, "err"
\* (MissingMacroParam) when no actual has that index, "none" for a name that
\* is no parameter.
lookup(P, name) ==
    IF \E i \in 1..Len(P.fp) : P.fp[i] = name
    THEN LET index == (CHOOSE i \in 1..Len(P.fp) : P.fp[i] = name) - 1
         IN IF index < Len(P.ap)
            THEN [t |-> "some", sel |-> P.ap[index + 1]]
            ELSE [t |-> "err", sel |-> <<>>]
    ELSE [t |-> "none", sel |-> <<>>]

SubstOk(o) == [ok |-> TRUE, err |-> "", os |-> o]
SubstErr(e) == [ok |-> FALSE, err |-> e, os |-> <<>>]

\* The loop popping whitespace and then the left operand of ## from os.
RECURSIVE PopLhs(_)
PopLhs(o) ==
    IF o = <<>> THEN [ok |-> FALSE, lhs |-> WS, os |-> <<>>]
    ELSE IF o[Len(o)].k = "WS" THEN PopLhs(SubSeq(o, 1, Len(o) - 1))
    ELSE [ok |-> TRUE, lhs |-> o[Len(o)], os |-> SubSeq(o, 1, Len(o) - 1)]

\* History only: a token built by the operator token op of a replacement
\* list belongs to the application that reads that list.
Stamp(tok, op) == [tok EXCEPT !.dv = @ \cup op.dv, !.re = @ \/ op.re]

\* A verbatim copy that does not receive the hide set of the invocation.
VerbatimNoHs(first, hs) == first
\* The verbatim branch of subst: the token with hs added to its hide set.
Verbatim(first, hs) == [first EXCEPT !.hs = @ \cup hs]

\* A stringization that drops the whitespace inside the actual.
StringizedTight(tok, sel) ==
    [tok EXCEPT !.k = "Str",
                !.v = DisplayAll(SelectSeq(sel, LAMBDA t : t.k # "WS"))]
\* The stringize branch of subst: one Str token spelled as the actual sel,
\* carrying the hide set of the parameter's name token tok.
Stringized(tok, sel) == [tok EXCEPT !.k = "Str", !.v = DisplayAll(sel)]

\* A paste that keeps only the glued token of the right actual.
PasteActualOnly(lhs, sel, op) == <<Stamp(glue(lhs, Head(sel)), op)>>
\* The paste branch of subst for a parameter with a selected actual sel:
\* what is pushed after the left operand was popped.
PasteActual(lhs, sel, op) == <<Stamp(glue(lhs, Head(sel)), op)>> \o Tail(sel)

(***************************************************************************)
(* subst: one call, from the replacement list s to the output o.           *)
(***************************************************************************)
RECURSIVE subst(_, _, _, _)
subst(s, P, hs, o) ==
    IF s = <<>> THEN SubstOk(o)
    ELSE
    LET first == Head(s)
        verbatim(rest) == subst(rest, P, hs, Append(o, Verbatim(first, hs)))
    IN
    IF first.k = "Stringize" THEN
        LET sk == skip_ws(Tail(s), <<>>)
        IN IF sk.next = <<>> THEN SubstErr("InvalidStringizing")
           ELSE LET tok == sk.next[1]
                IN IF tok.k # "Name" THEN SubstErr("InvalidStringizing")
                   ELSE IF ~P.has THEN verbatim(sk.rest)
                   ELSE LET lk == lookup(P, tok.v)
                        IN CASE lk.t = "err" -> SubstErr("MissingMacroParam")
                             [] lk.t = "some" ->
                                  subst(sk.rest, P, hs,
                                        Append(o, Stringized(tok, lk.sel)))
                             [] OTHER -> verbatim(sk.rest)
    ELSE IF first.k = "Paste" THEN
        LET sk == skip_ws(Tail(s), <<>>)
        IN IF sk.next = <<>> THEN SubstErr("InvalidTokenPaste")
           ELSE LET rhs == sk.next[1]
                    pop == PopLhs(o)
                    plain == subst(sk.rest, P, hs,
                                 Append(pop.os, Stamp(glue(pop.lhs, rhs), first)))
                IN IF ~pop.ok THEN SubstErr("InvalidTokenPaste")
                   ELSE IF rhs.k = "Name" /\ P.has
                   THEN LET lk == lookup(P, rhs.v)
                        IN CASE lk.t = "err" -> SubstErr("MissingMacroParam")
                             [] lk.t = "some" ->
                                  IF lk.sel = <<>>
                                  THEN SubstErr("InvalidTokenPaste")
                                  ELSE subst(sk.rest, P, hs,
                                         pop.os \o PasteActual(pop.lhs, lk.sel, first))
                             [] OTHER -> plain
                   ELSE plain
    ELSE IF P.has /\ first.k = "Name" THEN
        LET lk == lookup(P, first.v)
        IN CASE lk.t = "err" -> SubstErr("MissingMacroParam")
             [] lk.t = "some" -> subst(Tail(s), P, hs, o \o lk.sel)
             [] OTHER -> verbatim(Tail(s))
    ELSE verbatim(Tail(s))

(***************************************************************************)
(* expand_single_macro_invocation, for the name token first whose          *)
(* definition is def; rest is the input after first.                       *)
(***************************************************************************)
NoLast == [name |-> <<>>, fn |-> FALSE, head |-> WS, sub_hs |-> {},
           closparen_hs |-> {}, args |-> <<>>, actuals |-> <<>>, temp |-> <<>>]

Outcome(t, e, s, saved, info) ==
    [t |-> t, err |-> e, is |-> s, saved |-> saved, info |-> info]

\* The hide set handed to subst for a function-like macro.
FunctionHs(first, closparen_hs, name) ==
    hs_union(hs_intersection(first.hs, closparen_hs), {name})

\* The hide set handed to subst for an object-like macro.
ObjectHs(first, name) == first.hs \cup {name}

expand_single_macro_invocation(rest, name, first, def) ==
    LET dv == first.dv \cup {name}
        re == first.re \/ name \in first.dv
    IN
    IF ~def.fn THEN
        LET hs == ObjectHs(first, name)
            r == subst(as_ths(def.value, dv, re, name), NoParams, hs, <<>>)
        IN IF ~r.ok THEN Outcome("err", r.err, <<>>, <<>>, NoLast)
           ELSE Outcome("advance", "", r.os \o rest, <<>>,
                    [name |-> name, fn |-> FALSE, head |-> first, sub_hs |-> hs,
                     closparen_hs |-> {}, args |-> <<>>, actuals |-> <<>>,
                     temp |-> r.os])
    ELSE
        LET sk == skip_ws(rest, <<>>)
        IN IF sk.next = <<>> THEN Outcome("rewind", "", sk.rest, sk.saved, NoLast)
           ELSE IF ~IsPun(sk.next[1], "(")
           THEN Outcome("rewind", "", sk.rest, Append(sk.saved, sk.next[1]), NoLast)
           ELSE
           LET pa == parse_actuals(sk.rest, sk.saved)
           IN IF ~pa.ok THEN Outcome("err", pa.err, <<>>, <<>>, NoLast)
              ELSE
              LET sub_hs == FunctionHs(first, pa.closparen_hs, name)
                  r == subst(as_ths(def.value, dv, re, name),
                             SomeParams(def.fp, pa.actuals), sub_hs, <<>>)
              IN IF ~r.ok THEN Outcome("err", r.err, <<>>, <<>>, NoLast)
                 ELSE Outcome("advance", "", r.os \o pa.rest, <<>>,
                          [name |-> name, fn |-> TRUE, head |-> first,
                           sub_hs |-> sub_hs, closparen_hs |-> pa.closparen_hs,
                           args |-> SubSeq(sk.rest, 1, Len(sk.rest) - Len(pa.rest)),
                           actuals |-> pa.actuals, temp |-> r.os])

(***************************************************************************)
(* expand_defined, for the Defined token first; rest is the input after it.*)
(***************************************************************************)
\* A value that reads the context the wrong way round.
DefinedValueSwapped(id, name) == IF IsDefined(id, name) THEN <<"0">> ELSE <<"1">>
\* `SymbolState::Undefined => 0, SymbolState::Defined(_) => 1`
DefinedValue(id, name) == IF IsDefined(id, name) THEN <<"1">> ELSE <<"0">>

expand_defined(rest, first, id) ==
    LET bad == Outcome("err", "InvalidDefined", <<>>, <<>>, NoLast)
        emit(name, s) ==
            Outcome("advance", "", s, <<>>,
                    [NoLast EXCEPT !.temp =
                        <<[first EXCEPT !.k = "Int", !.v = DefinedValue(id, name)]>>])
        sk1 == skip_ws(rest, <<>>)
    IN IF sk1.next = <<>> THEN bad
       ELSE IF sk1.next[1].k = "Name" THEN emit(sk1.next[1].v, sk1.rest)
       ELSE IF IsPun(sk1.next[1], "(") THEN
           LET sk2 == skip_ws(sk1.rest, sk1.saved)
           IN IF sk2.next = <<>> \/ sk2.next[1].k # "Name" THEN bad
              ELSE LET sk3 == skip_ws(sk2.rest, sk2.saved)
                   IN IF sk3.next = <<>> \/ ~IsPun(sk3.next[1], ")") THEN bad
                      ELSE emit(sk2.next[1].v, sk3.rest)
       ELSE bad

(***************************************************************************)
(* The 'concat_strings loop of expand: the fused string and the input left.*)
(***************************************************************************)
RECURSIVE concat_strings(_, _)
concat_strings(acc, s) ==
    LET sk == skip_ws(s, <<>>)
    IN IF sk.next = <<>> THEN [tok |-> acc, is |-> sk.saved \o sk.rest]
       ELSE IF sk.next[1].k = "Str"
       THEN concat_strings([acc EXCEPT !.v = @ \o sk.next[1].v,
                                       !.hs = hs_union(@, sk.next[1].hs),
                                       !.dv = @ \cup sk.next[1].dv,
                                       !.re = @ \/ sk.next[1].re],
                           sk.rest)
       ELSE [tok |-> acc, is |-> Append(sk.saved, sk.next[1]) \o sk.rest]

(***************************************************************************)
(* Inputs of expand.  A lexed line never holds two whitespace tokens in a  *)
(* row, nor a name or integer directly followed by a name or integer.      *)
(* Inputs are all such lines up to MaxInputLen tokens over the alphabet of *)
(* the context, every invocation M(body) with such a body, and the literal *)
(* inputs of the tests and of the claims.                                  *)
(***************************************************************************)
Alphabet(id) ==
    CASE id = "add" -> {NameT(nADD), PunT("("), PunT(")"), PunT(","), WS, IntT(<<"1">>)}
      [] id = "hide" -> {NameT(nFOO), PunT("("), PunT(")"), NameT(nY), WS}
      [] id = "selfarg" -> {NameT(nFOO), PunT("("), PunT(")"), WS}
      [] id = "selfpaste" -> {NameT(nFOO), NameT(nFO), WS, PunT("+")}
      [] id = "strgz" -> {NameT(nS), PunT("("), PunT(")"), PunT(","), WS,
                          IntT(<<"2">>), PunT("+")}
      [] id = "adj" -> {NameT(nADJ), NameT(nM), StrT(<<"a">>), WS, PunT(","),
                        PunT("("), PunT(")")}
      [] id = "paste" -> {NameT(nP), PunT("("), PunT(")"), PunT(","), WS,
                          NameT(nFoo), IntT(<<"1">>)}
      [] id = "mutual" -> {NameT(nF), NameT(nG), PunT("("), PunT(")"),
                           IntT(<<"2">>)}
      [] id = "empty" -> {NameT(nEMPTY), Defined, PunT("("), PunT(")"), WS,
                          IntT(<<"1">>)}
      [] id = "defd" -> {NameT(nFOO), NameT(nY), NameT(nD), Defined, PunT("("),
                         PunT(")"), WS}
      [] id = "badstr" -> {NameT(nQ), NameT(nH), NameT(nN), PunT("("), PunT(")"),
                           IntT(<<"1">>), WS}

Wordy(tok) == tok.k \in {"Name", "Int", "Defined"}

Lexable(s) ==
    \A i \in 1..(Len(s) - 1) :
        /\ ~(s[i].k = "WS" /\ s[i + 1].k = "WS")
        /\ ~(Wordy(s[i]) /\ Wordy(s[i + 1]))

Lines(id, n) ==
    {s \in UNION {[1..k -> Alphabet(id)] : k \in 0..n} : Lexable(s)}

Invoke(name, body) == <<NameT(name), PunT("(")>> \o body \o <<PunT(")")>>

Literal(id) ==
    CASE id = "add" ->      \* ADD   (  1,  2  )
           {<<NameT(nADD), WS, PunT("("), WS, IntT(<<"1">>), PunT(","), WS,
              IntT(<<"2">>), WS, PunT(")")>>}
      [] id = "hide" -> {}
      [] id = "selfarg" ->  \* FOO(FOO FOO)
           {Invoke(nFOO, <<NameT(nFOO), WS, NameT(nFOO)>>)}
      [] id = "selfpaste" -> {}
      [] id = "strgz" ->    \* S(   2 + 3        )    S(S(2))    S2(  foo ,  bar )
           {Invoke(nS, <<WS, IntT(<<"2">>), WS, PunT("+"), WS, IntT(<<"3">>), WS>>),
            Invoke(nS, Invoke(nS, <<IntT(<<"2">>)>>)),
            Invoke(nS2, <<WS, NameT(nFoo), WS, PunT(","), WS, NameT(nBar), WS>>)}
      [] id = "adj" ->      \* ADJ("foo", "bar")
           {Invoke(nADJ, <<StrT(<<"f", "o", "o">>), PunT(","), WS,
                           StrT(<<"b", "a", "r">>)>>)}
      [] id = "paste" ->    \* P(foo,bar)    P(123,456)    P(a b, foo bar)
           {Invoke(nP, <<NameT(nFoo), PunT(","), NameT(nBar)>>),
            Invoke(nP, <<IntT(<<"1", "2", "3">>), PunT(","), IntT(<<"4", "5", "6">>)>>),
            Invoke(nP, <<NameT(nA), WS, NameT(nB), PunT(","), WS, NameT(nFoo), WS,
                         NameT(nBar)>>)}
      [] id = "mutual" ->   \* f(2)(9)
           {<<NameT(nF), PunT("("), IntT(<<"2">>), PunT(")"), PunT("("),
              IntT(<<"9">>), PunT(")")>>}
      [] id = "empty" ->    \* defined  (    E  )
           {<<Defined, WS, PunT("("), WS, NameT(nEMPTY), WS, PunT(")"), WS>>}
      [] id = "defd" ->     \* defined ( FOO ) FOO
           {<<Defined, WS, PunT("("), WS, NameT(nFOO), WS, PunT(")"), WS,
              NameT(nFOO)>>}
      [] id = "badstr" -> {}

Inputs(id) ==
    Lines(id, MaxInputLen)
    \cup {Invoke(m, b) : m \in DOMAIN Defs(id), b \in Lines(id, MaxInputLen)}
    \cup Literal(id)

(***************************************************************************)
(* expand: one action per turn of the 'expand_all loop.                    *)
(***************************************************************************)
ExpandInit ==
    /\ pc = "run"
    /\ cx \in CtxIds
    /\ input \in Inputs(cx)
    /\ is = input
    /\ os = <<>>
    /\ err = ""
    /\ last = NoLast

Running == pc = "run" /\ Len(os) < MaxOut

\* `None => return Ok(())`
ExpandEnd ==
    /\ Running /\ is = <<>>
    /\ pc' = "done"
    /\ UNCHANGED <<cx, input, is, os, err, last>>
    /\ UNCHANGED notExpand

\* The head is hidden by its own hide set: emitted as is.
ExpandHidden ==
    /\ Running /\ is # <<>> /\ hides(Head(is))
    /\ os' = Append(os, Head(is))
    /\ is' = Tail(is)
    /\ UNCHANGED <<pc, cx, input, err, last>>
    /\ UNCHANGED notExpand

IsMacroHead(id, tok) == tok.k = "Name" /\ IsDefined(id, tok.v)

\* The head names a defined macro: expand_single_macro_invocation, then
\* apply_outcome (Advance restarts the loop; Rewind puts saved back and falls
\* through to the verbatim push of the name).
ExpandMacro ==
    /\ Running /\ is # <<>> /\ ~hides(Head(is)) /\ IsMacroHead(cx, Head(is))
    /\ LET first == Head(is)
           out == expand_single_macro_invocation(Tail(is), first.v, first,
                                                 Defs(cx)[first.v])
       IN CASE out.t = "err" ->
                 /\ pc' = "error" /\ err' = out.err
                 /\ UNCHANGED <<is, os, last>>
            [] out.t = "advance" ->
                 /\ is' = out.is /\ last' = out.info
                 /\ UNCHANGED <<pc, os, err>>
            [] out.t = "rewind" ->
                 /\ is' = out.saved \o out.is
                 /\ os' = Append(os, first)
                 /\ UNCHANGED <<pc, err, last>>
    /\ UNCHANGED <<cx, input>>
    /\ UNCHANGED notExpand

\* The head is a string: fuse the strings that follow it.
ExpandConcat ==
    /\ Running /\ is # <<>> /\ Head(is).k = "Str"
    /\ LET c == concat_strings(Head(is), Tail(is))
       IN /\ os' = Append(os, c.tok)
          /\ is' = c.is
    /\ UNCHANGED <<pc, cx, input, err, last>>
    /\ UNCHANGED notExpand

\* The head is `defined`.
ExpandDefined ==
    /\ Running /\ is # <<>> /\ Head(is).k = "Defined"
    /\ LET out == expand_defined(Tail(is), Head(is), cx)
       IN IF out.t = "err"
          THEN /\ pc' = "error" /\ err' = out.err
               /\ UNCHANGED <<is, os>>
          ELSE /\ os' = os \o out.info.temp
               /\ is' = out.is
               /\ UNCHANGED <<pc, err>>
    /\ UNCHANGED <<cx, input, last>>
    /\ UNCHANGED notExpand

\* Any other head: emitted verbatim.
ExpandVerbatim ==
    /\ Running /\ is # <<>>
    /\ ~hides(Head(is)) /\ ~IsMacroHead(cx, Head(is))
    /\ Head(is).k \notin {"Str", "Defined"}
    /\ os' = Append(os, Head(is))
    /\ is' = Tail(is)
    /\ UNCHANGED <<pc, cx, input, err, last>>
    /\ UNCHANGED notExpand

\* The model stops following a run whose output passed MaxOut tokens.
ExpandCapped ==
    /\ pc = "run" /\ Len(os) >= MaxOut
    /\ pc' = "capped"
    /\ UNCHANGED <<cx, input, is, os, err, last>>
    /\ UNCHANGED notExpand

ExpandNext ==
    \/ ExpandEnd
    \/ ExpandHidden
    \/ ExpandMacro
    \/ ExpandConcat
    \/ ExpandDefined
    \/ ExpandVerbatim
    \/ ExpandCapped


(***************************************************************************)
(* Expr (parser/expr/mod.rs): the variants the Boolean simplifier reads.   *)
(***************************************************************************)
True == [t |-> "True"]
False == [t |-> "False"]
Symbol(n) == [t |-> "Symbol", n |-> n]
And(c) == [t |-> "And", c |-> c]
Or(c) == [t |-> "Or", c |-> c]
Not(v) == [t |-> "Not", v |-> v]

\* A BitAnd in which True absorbs, as it does in BitOr.
bitandAbsorbing(l, r) ==
    CASE l.t = "False" \/ r.t = "False" -> False
      [] l.t = "True" \/ r.t = "True" -> True
      [] l.t = "And" /\ r.t = "And" -> And(l.c \o r.c)
      [] l.t = "And" -> And(Append(l.c, r))
      [] r.t = "And" -> And(Append(r.c, l))
      [] OTHER -> And(<<l, r>>)
\* impl BitAnd for Expr.
bitand(l, r) ==
    CASE l.t = "False" \/ r.t = "False" -> False
      [] r.t = "True" -> l
      [] l.t = "True" -> r
      [] l.t = "And" /\ r.t = "And" -> And(l.c \o r.c)
      [] l.t = "And" -> And(Append(l.c, r))
      [] r.t = "And" -> And(Append(r.c, l))
      [] OTHER -> And(<<l, r>>)
\* impl BitOr for Expr.
bitor(l, r) ==
    CASE l.t = "True" \/ r.t = "True" -> True
      [] r.t = "False" -> l
      [] l.t = "False" -> r
      [] l.t = "Or" /\ r.t = "Or" -> Or(l.c \o r.c)
      [] l.t = "Or" -> Or(Append(l.c, r))
      [] r.t = "Or" -> Or(Append(r.c, l))
      [] OTHER -> Or(<<l, r>>)
\* A negation that always wraps its operand.
notWrapping(e) == Not(e)
\* impl Not for Expr.
not(e) == IF e.t = "Not" THEN e.v ELSE Not(e)

\* The operands the operators are applied to: literals, symbols, negations
\* (one of them of a negation), and And and Or nodes, flat, mixed and with a
\* node of the same kind directly inside.
Operands ==
    LET a == Symbol("a")
        b == Symbol("b")
    IN {True, False, a, b, Not(a), Not(Not(a)), Not(And(<<a, b>>)),
        And(<<a, b>>), And(<<b>>), Or(<<a, b>>), Or(<<b>>),
        And(<<a, Or(<<a, b>>)>>), Or(<<And(<<a, b>>), b>>),
        And(<<And(<<a, b>>), b>>), Or(<<a, Or(<<a, b>>)>>)}

AlgebraInit ==
    /\ vx \in Operands /\ vy \in Operands
    /\ vops = <<>>
    /\ vr = [t |-> "pending"]

\* `vx & vy`
BitAndOp ==
    /\ vops = <<>>
    /\ vr' = bitand(vx, vy)
    /\ vops' = <<"&">>
    /\ UNCHANGED <<vx, vy>>
    /\ UNCHANGED notAlgebra

\* `vx | vy`
BitOrOp ==
    /\ vops = <<>>
    /\ vr' = bitor(vx, vy)
    /\ vops' = <<"|">>
    /\ UNCHANGED <<vx, vy>>
    /\ UNCHANGED notAlgebra

\* `!vx`, and `!` of that.
NotOp ==
    /\ vops \in {<<>>, <<"!">>}
    /\ vr' = not(IF vops = <<>> THEN vx ELSE vr)
    /\ vops' = Append(vops, "!")
    /\ UNCHANGED <<vx, vy>>
    /\ UNCHANGED notAlgebra

AlgebraNext ==
    \/ BitAndOp
    \/ BitOrOp
    \/ NotOp

\* The truth value of an expression when exactly the atoms in A are true.
RECURSIVE ExprHolds(_, _)
ExprHolds(e, A) ==
    CASE e.t = "True" -> TRUE
      [] e.t = "False" -> FALSE
      [] e.t = "Symbol" -> e.n \in A
      [] e.t = "Not" -> ~ExprHolds(e.v, A)
      [] e.t = "And" -> \A i \in 1..Len(e.c) : ExprHolds(e.c[i], A)
      [] e.t = "Or" -> \E i \in 1..Len(e.c) : ExprHolds(e.c[i], A)

\* The Boolean formulas of the minimizer: the same shapes over term indices.
Term(i) == [t |-> "Term", i |-> i]

\* s without the elements already in seen, and without repetitions.
RECURSIVE Fresh(_, _)
Fresh(s, seen) ==
    IF s = <<>> THEN <<>>
    ELSE IF \E j \in 1..Len(seen) : seen[j] = Head(s)
         THEN Fresh(Tail(s), seen)
         ELSE <<Head(s)>> \o Fresh(Tail(s), Append(seen, Head(s)))

\* Terms: the atoms of an expression in the order as_bool first meets them.
RECURSIVE AtomsInOrder(_)
AtomsInOrder(e) ==
    CASE e.t = "Symbol" -> <<e.n>>
      [] e.t = "Not" -> AtomsInOrder(e.v)
      [] e.t \in {"And", "Or"} ->
           IF e.c = <<>> THEN <<>>
           ELSE AtomsInOrder(Head(e.c)) \o AtomsInOrder([e EXCEPT !.c = Tail(e.c)])
      [] OTHER -> <<>>
Terms(e) == Fresh(AtomsInOrder(e), <<>>)
TermIndex(terms, n) == CHOOSE i \in 1..Len(terms) : terms[i] = n

\* Expr::as_bool: And, Or, Not, True and False keep their shape, every atom
\* becomes the term of its index in the table.
RECURSIVE as_bool(_, _)
as_bool(e, terms) ==
    CASE e.t = "Symbol" -> Term(TermIndex(terms, e.n))
      [] e.t = "Not" -> Not(as_bool(e.v, terms))
      [] e.t \in {"And", "Or"} ->
           [e EXCEPT !.c = [i \in 1..Len(e.c) |-> as_bool(e.c[i], terms)]]
      [] OTHER -> e

\* Expr::from_bool: the way back, every term replaced by its atom.
RECURSIVE from_bool(_, _)
from_bool(b, terms) ==
    CASE b.t = "Term" -> Symbol(terms[b.i])
      [] b.t = "Not" -> Not(from_bool(b.v, terms))
      [] b.t \in {"And", "Or"} ->
           [b EXCEPT !.c = [i \in 1..Len(b.c) |-> from_bool(b.c[i], terms)]]
      [] OTHER -> b

\* The truth value of a formula when exactly the terms in A are true.
RECURSIVE BoolHolds(_, _)
BoolHolds(b, A) ==
    CASE b.t = "True" -> TRUE
      [] b.t = "False" -> FALSE
      [] b.t = "Term" -> b.i \in A
      [] b.t = "Not" -> ~BoolHolds(b.v, A)
      [] b.t = "And" -> \A i \in 1..Len(b.c) : BoolHolds(b.c[i], A)
      [] b.t = "Or" -> \E i \in 1..Len(b.c) : BoolHolds(b.c[i], A)

(***************************************************************************)
(* Bool::simplify of the Quine-McCluskey minimizer: every sum of prime     *)
(* implicants that covers the minterms with the fewest products.           *)
(***************************************************************************)
Minterms(b, n) == {A \in SUBSET (1..n) : BoolHolds(b, A)}
\* A product: each variable required true ("1"), false ("0") or absent ("-").
Products(n) == [1..n -> {"1", "0", "-"}]
ProductCovers(c, A) ==
    \A v \in DOMAIN c : c[v] = "-" \/ ((c[v] = "1") <=> (v \in A))
Implicant(c, M, n) == \A A \in SUBSET (1..n) : ProductCovers(c, A) => A \in M
Widens(d, c) == d # c /\ \A v \in DOMAIN c : d[v] = "-" \/ d[v] = c[v]
PrimeImplicants(M, n) ==
    {c \in Products(n) :
        /\ Implicant(c, M, n)
        /\ ~\E d \in Products(n) : Widens(d, c) /\ Implicant(d, M, n)}
MinimalCovers(M, n) ==
    LET sums == {S \in SUBSET PrimeImplicants(M, n) :
                    \A A \in M : \E c \in S : ProductCovers(c, A)}
        least == CHOOSE k \in 0..Cardinality(PrimeImplicants(M, n)) :
                    /\ \E S \in sums : Cardinality(S) = k
                    /\ \A S \in sums : Cardinality(S) >= k
    IN {S \in sums : Cardinality(S) = least}

\* A product as a formula: a term, a negated term, or the And of several.
RECURSIVE Literals(_, _)
Literals(c, v) ==
    IF v > Len(c) THEN <<>>
    ELSE (CASE c[v] = "1" -> <<Term(v)>>
            [] c[v] = "0" -> <<Not(Term(v))>>
            [] OTHER -> <<>>) \o Literals(c, v + 1)
ProductBool(c) ==
    LET lits == Literals(c, 1)
    IN CASE Len(lits) = 0 -> True
         [] Len(lits) = 1 -> lits[1]
         [] OTHER -> And(lits)
RECURSIVE ProductRank(_, _)
ProductRank(c, v) ==
    IF v > Len(c) THEN 0
    ELSE (CASE c[v] = "1" -> 1 [] c[v] = "0" -> 2 [] OTHER -> 0)
         + 3 * ProductRank(c, v + 1)
RECURSIVE ProductSeq(_)
ProductSeq(S) ==
    IF S = {} THEN <<>>
    ELSE LET m == CHOOSE c \in S : \A d \in S : ProductRank(c, 1) <= ProductRank(d, 1)
         IN <<ProductBool(m)>> \o ProductSeq(S \ {m})
SumBool(S) == IF Cardinality(S) = 1 THEN ProductSeq(S)[1] ELSE Or(ProductSeq(S))

\* The minimal forms of b over n terms.
BoolSimplify(b, n) ==
    LET M == Minterms(b, n)
    IN CASE M = {} -> {False}
         [] n = 0 -> {True}
         [] OTHER -> {SumBool(S) : S \in MinimalCovers(M, n)}

\* Expr::simplify: as_bool, the minimizer, assert_eq!(output.len(), 1),
\* from_bool of the single form.
Panicked(why) == [t |-> "panic", why |-> why]
simplify(e) ==
    LET terms == Terms(e)
        output == BoolSimplify(as_bool(e, terms), Len(terms))
    IN IF Cardinality(output) # 1
       THEN Panicked("assertion failed: output.len() == 1")
       ELSE from_bool(CHOOSE b \in output : TRUE, terms)

(***************************************************************************)
(* The expressions simplify is run on: sums of at most MaxTerms products   *)
(* of one or two literals over three atoms, and the example of its         *)
(* documentation, a && !(a && b).                                          *)
(***************************************************************************)
SimpAtoms == <<"a", "b", "c">>
Literal6 ==
    [i \in 1..6 |-> IF i % 2 = 1 THEN Symbol(SimpAtoms[(i + 1) \div 2])
                    ELSE Not(Symbol(SimpAtoms[i \div 2]))]
LitPairs ==
    <<<<1, 3>>, <<1, 4>>, <<2, 3>>, <<2, 4>>, <<1, 5>>, <<1, 6>>,
      <<2, 5>>, <<2, 6>>, <<3, 5>>, <<3, 6>>, <<4, 5>>, <<4, 6>>>>
ProductExpr(i) ==
    IF i <= 6 THEN Literal6[i]
    ELSE And(<<Literal6[LitPairs[i - 6][1]], Literal6[LitPairs[i - 6][2]]>>)
SumOf(ix) ==
    IF Len(ix) = 1 THEN ProductExpr(ix[1])
    ELSE Or([j \in 1..Len(ix) |-> ProductExpr(ix[j])])
Rising(k) ==
    {ix \in [1..k -> 1..(6 + Len(LitPairs))] : \A j \in 1..(k - 1) : ix[j] < ix[j + 1]}
DocExample ==
    And(<<Symbol("a"), Not(And(<<Symbol("a"), Symbol("b")>>))>>)
SimplifyInputs ==
    {SumOf(ix) : ix \in UNION {Rising(k) : k \in 1..MaxTerms}}
      \cup {DocExample,
            And(<<Symbol("a"), Not(Symbol("a"))>>),
            Or(<<Symbol("a"), Not(Symbol("a"))>>)}

SimplifyInit ==
    /\ sx \in SimplifyInputs
    /\ sr = [t |-> "pending"]

\* One call of Expr::simplify.
Simplify ==
    /\ sr.t = "pending"
    /\ sr' = simplify(sx)
    /\ UNCHANGED sx
    /\ UNCHANGED notSimplify

SimplifyNext == Simplify

(***************************************************************************)
(* Expr::constant_fold (parser/expr/mod.rs).  The outcome is the Expr      *)
(* returned, or the panic of the arithmetic.  An integer outside           *)
(* -MaxInt..MaxInt, and a shift by an amount outside 0..63 (a panic or a   *)
(* masked shift, by the build profile), is outside what the model follows. *)
(***************************************************************************)
Integer(i) == [t |-> "Integer", i |-> i]
Binary(op, l, r) == [t |-> "Binary", op |-> op, l |-> l, r |-> r]
DefinedExpr(name) == [t |-> "Defined", name |-> name]
Call(callee, args) == [t |-> "Call", callee |-> callee, args |-> args]
Beyond == [t |-> "beyond"]

BinaryOperators ==
    {"Less", "LessOrEqual", "Greater", "GreaterOrEqual", "Equals", "NotEquals",
     "BitwiseOr", "BitwiseAnd", "BitwiseXor", "Add", "Subtract", "Multiply",
     "Divide", "Modulo", "LeftShift", "RightShift"}

\* Expr::bool
bool(b) == IF b THEN True ELSE False

FoldInt(x) == IF x >= -MaxInt /\ x <= MaxInt THEN Integer(x) ELSE Beyond

Abs(x) == IF x < 0 THEN -x ELSE x
\* i64 division and remainder: the quotient is truncated towards zero.
TruncDiv(l, r) ==
    IF (l < 0) = (r < 0) THEN Abs(l) \div Abs(r) ELSE -(Abs(l) \div Abs(r))
TruncRem(l, r) == l - r * TruncDiv(l, r)

\* Bitwise operators on two's complement integers.
RECURSIVE Bits(_, _, _)
Bits(op, a, b) ==
    IF a \in {0, -1} /\ b \in {0, -1}
    THEN IF op[(-a) + 1][(-b) + 1] THEN -1 ELSE 0
    ELSE (IF op[(a % 2) + 1][(b % 2) + 1] THEN 1 ELSE 0)
         + 2 * Bits(op, a \div 2, b \div 2)
BitOrTable == <<<<FALSE, TRUE>>, <<TRUE, TRUE>>>>
BitAndTable == <<<<FALSE, FALSE>>, <<FALSE, TRUE>>>>
BitXorTable == <<<<FALSE, TRUE>>, <<TRUE, FALSE>>>>

RECURSIVE Pow2(_)
Pow2(k) == IF k = 0 THEN 1 ELSE 2 * Pow2(k - 1)

\* `BO::Divide => Integer(l / r)` and `BO::Modulo => Integer(l % r)`.
DivideOrModulo(op, l, r) ==
    IF r = 0
    THEN Panicked(IF op = "Divide" THEN "attempt to divide by zero"
                  ELSE "attempt to calculate the remainder with a divisor of zero")
    ELSE FoldInt(IF op = "Divide" THEN TruncDiv(l, r) ELSE TruncRem(l, r))

\* The arm `(Integer(l), Integer(r)) => match op`.
FoldIntegers(op, l, r) ==
    CASE op = "Add" -> FoldInt(l + r)
      [] op = "Subtract" -> FoldInt(l - r)
      [] op = "Multiply" -> FoldInt(l * r)
      [] op \in {"Divide", "Modulo"} -> DivideOrModulo(op, l, r)
      [] op = "BitwiseOr" -> FoldInt(Bits(BitOrTable, l, r))
      [] op = "BitwiseAnd" -> FoldInt(Bits(BitAndTable, l, r))
      [] op = "BitwiseXor" -> FoldInt(Bits(BitXorTable, l, r))
      [] op = "LeftShift" ->
           IF r < 0 \/ r > 7 THEN Beyond ELSE FoldInt(l * Pow2(r))
      [] op = "RightShift" ->
           IF r < 0 \/ r > 63 THEN Beyond
           ELSE IF r > 7 THEN FoldInt(IF l < 0 THEN -1 ELSE 0)
           ELSE FoldInt(l \div Pow2(r))
      [] op = "Greater" -> bool(l > r)
      [] op = "GreaterOrEqual" -> bool(l >= r)
      [] op = "Less" -> bool(l < r)
      [] op = "LessOrEqual" -> bool(l <= r)
      [] op = "Equals" -> bool(l = r)
      [] op = "NotEquals" -> bool(l # r)

\* Expr::truthiness, an Option<bool> as a sequence of length 0 or 1.
truthiness(e) ==
    CASE e.t = "True" -> <<TRUE>>
      [] e.t = "False" -> <<FALSE>>
      [] e.t = "Integer" -> <<e.i # 0>>
      [] OTHER -> <<>>

\* An outcome that is no Expr: it ends the fold of every Expr around it.
Aborted(o) == o.t \in {"panic", "beyond"}
\* `iter().map(|v| v.constant_fold(ctx)).collect()`: the first child that
\* does not return ends the fold.
Collected(os_) ==
    LET bad == {i \in 1..Len(os_) : Aborted(os_[i])}
    IN IF bad = {} THEN [ok |-> TRUE, c |-> os_]
       ELSE [ok |-> FALSE,
             c |-> os_[CHOOSE i \in bad : \A j \in bad : i <= j]]

RECURSIVE constant_fold(_, _)
constant_fold(e, ctx) ==
    CASE e.t = "Symbol" -> e
      [] e.t = "Defined" ->
           CASE ctx[e.name] = "Blacklisted" -> False
             [] ctx[e.name] = "Unconditional" -> True
             [] OTHER -> e
      [] e.t = "Call" ->
           LET a == Collected([i \in 1..Len(e.args) |-> constant_fold(e.args[i], ctx)])
           IN IF a.ok THEN Call(e.callee, a.c) ELSE a.c
      [] e.t \in {"True", "False"} -> e
      [] e.t \in {"And", "Or"} ->
           LET a == Collected([i \in 1..Len(e.c) |-> constant_fold(e.c[i], ctx)])
           IN IF ~a.ok THEN a.c ELSE IF e.t = "And" THEN And(a.c) ELSE Or(a.c)
      [] e.t = "Not" ->
           LET v == constant_fold(e.v, ctx)
           IN CASE Aborted(v) -> v
                [] v.t = "True" -> False
                [] v.t = "False" -> True
                [] v.t = "Integer" -> FoldInt(-v.i - 1)
                [] OTHER -> not(v)
      [] e.t = "Binary" ->
           LET l == constant_fold(e.l, ctx)
           IN IF Aborted(l) THEN l
              ELSE LET r == constant_fold(e.r, ctx)
                   IN IF Aborted(r) THEN r
                      ELSE IF l.t = "Integer" /\ r.t = "Integer"
                      THEN FoldIntegers(e.op, l.i, r.i)
                      ELSE Binary(e.op, l, r)
      [] e.t = "Integer" -> e

\* The expressions folded: leaves, every operator over two leaves, the
\* negation of these, quotients and remainders whose divisor is itself a
\* folded operation, and conjunctions, disjunctions (flat, and with one of
\* the same kind inside) and calls of them.
FoldNames == {"A"}
Leaves ==
    {Integer(i) : i \in 0..MaxLit}
    \cup {True, False, Symbol("a")} \cup {DefinedExpr(n) : n \in FoldNames}
Arith ==
    {Binary(op, Integer(i), Integer(j)) :
        op \in BinaryOperators, i \in 0..MaxLit, j \in 0..MaxLit}
FoldInputs ==
    Leaves
    \cup {Binary(op, l, r) : op \in BinaryOperators, l \in Leaves, r \in Leaves}
    \cup {Not(x) : x \in Leaves \cup Arith}
    \cup {Binary(op, Integer(i), y) :
             op \in {"Divide", "Modulo", "LeftShift"}, i \in 0..MaxLit, y \in Arith}
    \cup {And(<<x, y>>) : x \in Leaves, y \in Leaves}
    \cup {Or(<<x, y>>) : x \in Leaves, y \in Leaves}
    \cup {And(<<And(<<x, Symbol("b")>>), y>>) : x \in Leaves, y \in Leaves}
    \cup {Or(<<x, Or(<<Symbol("b"), y>>)>>) : x \in Leaves, y \in Leaves}
    \cup {Or(<<x, Binary("Divide", Integer(1), y)>>) : x \in Leaves, y \in Leaves}
    \cup {Call("f", <<x>>) : x \in Arith}

FoldInit ==
    /\ fctx \in [FoldNames -> {"Blacklisted", "Unconditional", "Unknown"}]
    /\ fx \in FoldInputs
    /\ fr = [t |-> "pending"]

\* The call `fx.constant_fold(&ctx)`.
ConstantFold ==
    /\ fr.t = "pending"
    /\ fr' = constant_fold(fx, fctx)
    /\ UNCHANGED <<fctx, fx>>
    /\ UNCHANGED notFold

FoldNext == ConstantFold

(***************************************************************************)
(* Parser::parse_all (parser/mod.rs): the breadth-first include driver.    *)
(* disk maps every file that resolves to the keys of the dependencies map  *)
(* ParsedUnit::parse builds for it; an include outside its domain does not *)
(* resolve.                                                                *)
(***************************************************************************)
Root == "root.h"
Includes == {Root, "a.h", "b.h", "c.h"}
OnDisk == {Root, "a.h", "b.h"}
Disks == [OnDisk -> {d \in SUBSET Includes : Cardinality(d) <= MaxDeps}]

\* The orders in which the keys of a HashMap can be iterated.
KeyOrders(S) ==
    {ks \in [1..Cardinality(S) -> S] : \A i, j \in 1..Cardinality(S) : ks[i] = ks[j] => i = j}

\* Parser::new: ordered_includes starts as [root]; parse_all queues the root.
ParserNew ==
    /\ unit_queue = <<Root>>
    /\ ordered_includes = <<Root>>
    /\ sources = {}
    /\ pstate = "run"
NoRun == [st |-> "none", ordered_includes |-> <<>>]
IncludeInit ==
    /\ disk \in Disks
    /\ ParserNew
    /\ run = 1
    /\ first_run = NoRun

\* One turn of `while let Some(work_unit) = unit_queue.pop_front()`.
ParseAllStep ==
    /\ pstate = "run" /\ unit_queue # <<>>
    /\ LET work_unit == Head(unit_queue)
       IN IF work_unit \in sources
          THEN /\ unit_queue' = Tail(unit_queue)
               /\ UNCHANGED <<ordered_includes, sources, pstate>>
          ELSE IF work_unit \notin DOMAIN disk
          THEN /\ pstate' = "NotFound"
               /\ unit_queue' = Tail(unit_queue)
               /\ UNCHANGED <<ordered_includes, sources>>
          ELSE \E keys \in KeyOrders(disk[work_unit]) :
                 /\ ordered_includes' = ordered_includes \o keys
                 /\ unit_queue' = Tail(unit_queue) \o keys
                 /\ sources' = sources \cup {work_unit}
                 /\ UNCHANGED pstate
    /\ UNCHANGED <<disk, run, first_run>>
    /\ UNCHANGED notInclude

\* The queue is empty: `Ok(())`.
ParseAllEnd ==
    /\ pstate = "run" /\ unit_queue = <<>>
    /\ pstate' = "ok"
    /\ UNCHANGED <<disk, unit_queue, ordered_includes, sources, run, first_run>>
    /\ UNCHANGED notInclude

\* A second Parser is built over the same files and search paths.
RunAgain ==
    /\ run = 1 /\ pstate \in {"ok", "NotFound"}
    /\ first_run' = [st |-> pstate, ordered_includes |-> ordered_includes]
    /\ run' = 2
    /\ unit_queue' = <<Root>>
    /\ ordered_includes' = <<Root>>
    /\ sources' = {}
    /\ pstate' = "run"
    /\ UNCHANGED disk
    /\ UNCHANGED notInclude

IncludeNext ==
    \/ ParseAllStep
    \/ ParseAllEnd
    \/ RunAgain

(***************************************************************************)
(* Include::resolve and Parser::read_include (parser/mod.rs).  A path is   *)
(* <<directory, file name>>; an Option<PathBuf> is a sequence of length 0  *)
(* or 1.                                                                   *)
(***************************************************************************)
System(path) == [kind |-> "System", path |-> path]
Quoted(path) == [kind |-> "Quoted", path |-> path]

Dirs == {"w", "q1", "q2", "s1", "s2"}
Headers == {"a.h", "b.h"}
RootPath == <<"w", Root>>
NoPaths == [system_paths |-> <<>>, quoted_paths |-> <<>>, working_path |-> ""]
NoRead == [from |-> <<>>, include |-> Quoted(""), path |-> <<>>, read |-> FALSE]

\* Path::join and Path::exists.
join(dir, candidate) == <<dir, candidate>>
exists(merged) == merged \in fs

RECURSIVE resolve_system(_, _)
resolve_system(candidate, system_paths) ==
    IF system_paths = <<>> THEN <<>>
    ELSE LET merged == join(Head(system_paths), candidate)
         IN IF exists(merged) THEN <<merged>>
            ELSE resolve_system(candidate, Tail(system_paths))

\* The loop of resolve_quoted over the quoted paths.
RECURSIVE QuotedLoop(_, _)
QuotedLoop(candidate, quoted_paths) ==
    IF quoted_paths = <<>> THEN <<>>
    ELSE LET merged == join(Head(quoted_paths), candidate)
         IN IF exists(merged) THEN <<merged>>
            ELSE QuotedLoop(candidate, Tail(quoted_paths))

resolve_quoted(candidate, quoted_paths, working_path) ==
    LET merged == join(working_path, candidate)
    IN IF exists(merged) THEN <<merged>>
       ELSE QuotedLoop(candidate, quoted_paths)

resolve(include, system_paths, quoted_paths, working_path) ==
    IF include.kind = "System"
    THEN resolve_system(include.path, system_paths)
    ELSE LET local == resolve_quoted(include.path, quoted_paths, working_path)
         IN IF local # <<>> THEN local
            ELSE resolve_system(include.path, system_paths)

\* Parser::read_include: the path read, or NotFound(include).
read_include(include) ==
    LET path == resolve(include, paths.system_paths, paths.quoted_paths,
                        paths.working_path)
    IN IF path = <<>> THEN [ok |-> FALSE, err |-> "NotFound", path |-> <<>>]
       ELSE [ok |-> TRUE, err |-> "", path |-> path]

\* Parser::new: the working path is the directory of the initial file.
ResolveInit ==
    /\ fs \in {{RootPath} \cup S : S \in {F \in SUBSET (Dirs \X Headers) :
                                           Cardinality(F) <= MaxFiles}}
    /\ paths \in [system_paths : {<<"s1">>, <<"s1", "s2">>, <<"s2", "s1">>},
                   quoted_paths : {<<>>, <<"q1">>, <<"q1", "q2">>, <<"q2", "q1">>},
                   working_path : {RootPath[1]}]
    /\ rcur = RootPath
    /\ rlast = NoRead
    /\ rstate = "run"

\* The file at rcur has an #include directive: read_include is called for
\* it, and the file it finds is the next one to be walked.
ReadInclude ==
    /\ rstate = "run"
    /\ \E include \in {System(h) : h \in Headers} \cup {Quoted(h) : h \in Headers} :
         LET r == read_include(include)
         IN /\ rlast' = [from |-> rcur, include |-> include, path |-> r.path,
                         read |-> TRUE]
            /\ IF r.ok THEN rcur' = r.path[1] /\ UNCHANGED rstate
               ELSE rstate' = r.err /\ UNCHANGED rcur
    /\ UNCHANGED <<fs, paths>>
    /\ UNCHANGED notResolve

ResolveNext == ReadInclude

(***************************************************************************)
(* ParsedUnit::parse (parser/mod.rs) and ParsedUnit::chunks, the chunker   *)
(* exercised by parser/test_chunks.rs.  A unit is a sequence of lines: a   *)
(* directive or a line of C text.                                          *)
(***************************************************************************)
IfDef(name) == [d |-> "ifdef", name |-> name]
Else == [d |-> "else"]
EndIf == [d |-> "endif"]
Text(t) == [d |-> "text", s |-> t]
LineAlphabet ==
    {IfDef("FOO"), IfDef("BAR"), Else, EndIf,
     Text("struct foo {"), Text("int foo;"), Text("};")}

\* Every #else and #endif of the unit has its #ifdef, and every #ifdef ends.
RECURSIVE Nested(_, _)
Nested(u, open) ==
    IF u = <<>> THEN open = <<>>
    ELSE CASE Head(u).d = "ifdef" -> Nested(Tail(u), Append(open, FALSE))
           [] Head(u).d = "else" ->
                /\ open # <<>> /\ ~open[Len(open)]
                /\ Nested(Tail(u), [open EXCEPT ![Len(open)] = TRUE])
           [] Head(u).d = "endif" ->
                open # <<>> /\ Nested(Tail(u), SubSeq(open, 1, Len(open) - 1))
           [] OTHER -> Nested(Tail(u), open)

\* The units of test_chunks.rs.
SingleAtomStrands ==
    <<IfDef("FOO"), Text("int foo();"), EndIf,
      IfDef("BAR"), Text("int bar();"), EndIf>>
NestedIfdefs ==
    <<IfDef("FOO"), Text("int foo();"), IfDef("BAR"), Text("int foobar();"),
      EndIf, EndIf>>
GatedStructField ==
    <<Text("struct foo {"), Text("int lawful;"), IfDef("EVIL"), Text("int evil;"),
      EndIf, Text("};")>>
GatedStructFieldIfElse ==
    <<Text("struct foo {"), Text("int lawful;"), IfDef("EVIL"), Text("int evil;"),
      Else, Text("int good;"), EndIf, Text("};")>>
GatedStructCloseIfElse ==
    <<Text("struct foo {"), Text("int lawful;"), IfDef("EVIL"), Text("};"),
      Else, Text("};"), EndIf>>
GatedStructCloseConvoluted ==
    <<Text("struct foo {"), Text("int foo;"), IfDef("BAR"), Text("struct bar {"),
      Text("int bar;"), EndIf, IfDef("BAZ"), Text("} nested;"), EndIf, Text("};")>>
TestUnits ==
    {SingleAtomStrands, NestedIfdefs, GatedStructField, GatedStructFieldIfElse,
     GatedStructCloseIfElse, GatedStructCloseConvoluted}
Units ==
    {u \in UNION {[1..k -> LineAlphabet] : k \in 0..MaxLines} : Nested(u, <<>>)}
      \cup TestUnits

\* lang_c's parser on the lines of a chunk: the text is one or more complete
\* declarations when it is not empty and its braces match.
Brace(t) ==
    CASE t \in {"struct foo {", "struct bar {"} -> 1
      [] t \in {"};", "} nested;"} -> -1
      [] OTHER -> 0
RECURSIVE BracesMatch(_, _)
BracesMatch(src, depth) ==
    IF src = <<>> THEN depth = 0
    ELSE /\ depth + Brace(Head(src)) >= 0
         /\ BracesMatch(Tail(src), depth + Brace(Head(src)))
Parses(src) == src # <<>> /\ BracesMatch(src, 0)

ChunkInit ==
    /\ unit \in Units
    /\ line_n = 0
    /\ def_ranges = <<True>>
    /\ last_if = <<>>
    /\ atoms = <<>>
    /\ chunks = <<>>
    /\ cstate = "parse"

\* A push that forgets the predicate around the new range.
RangePushFlat(ranges, pred) == Append(ranges, pred)
\* RangeSet::push and pop: a predicate opens under the one around it.
RangePush(ranges, pred) == Append(ranges, bitand(ranges[Len(ranges)], pred))
RangePop(ranges) == SubSeq(ranges, 1, Len(ranges) - 1)
\* A line of text joins the range it lies in: the atom of the line before it,
\* or a new atom under the predicate on top of the stack.
AddText(as, t, joins, pred) ==
    IF joins
    THEN [as EXCEPT ![Len(as)].lines = Append(@, t)]
    ELSE Append(as, [pred |-> pred, lines |-> <<t>>])

\* One turn of `for line in source.lines()` of ParsedUnit::parse.
ParseLine ==
    /\ cstate = "parse" /\ line_n < Len(unit)
    /\ LET l == unit[line_n + 1]
       IN CASE l.d = "ifdef" ->
                 /\ last_if' = <<Symbol(l.name)>>
                 /\ def_ranges' = RangePush(def_ranges, Symbol(l.name))
                 /\ UNCHANGED <<atoms, cstate>>
            [] l.d = "else" ->
                 IF last_if = <<>>
                 THEN /\ cstate' = "panic"
                      /\ UNCHANGED <<last_if, def_ranges, atoms>>
                 ELSE /\ def_ranges' = RangePush(RangePop(def_ranges), Not(last_if[1]))
                      /\ UNCHANGED <<last_if, atoms, cstate>>
            [] l.d = "endif" ->
                 /\ def_ranges' = RangePop(def_ranges)
                 /\ last_if' = <<>>
                 /\ UNCHANGED <<atoms, cstate>>
            [] l.d = "text" ->
                 /\ atoms' = AddText(atoms, l.s,
                                     line_n > 0 /\ unit[IF line_n > 0 THEN line_n ELSE 1].d = "text",
                                     def_ranges[Len(def_ranges)])
                 /\ UNCHANGED <<last_if, def_ranges, cstate>>
    /\ line_n' = line_n + 1
    /\ UNCHANGED <<unit, chunks>>
    /\ UNCHANGED notChunk

\* The lines are read: `def_ranges.pop(n)` and the ParsedUnit is returned.
ParseEnd ==
    /\ cstate = "parse" /\ line_n = Len(unit)
    /\ cstate' = "parsed"
    /\ UNCHANGED <<unit, line_n, def_ranges, last_if, atoms, chunks>>
    /\ UNCHANGED notChunk

(***************************************************************************)
(* ParsedUnit::chunks knits atoms into strands: atoms are added to the     *)
(* strand until, under every configuration of its symbols that leaves it   *)
(* any text, the active lines parse; every such configuration gives a      *)
(* chunk, and the next strand starts.  The strand the unit ends in gives   *)
(* the chunks that parse, and CouldNotKnit when none does.                 *)
(***************************************************************************)
RECURSIVE StrandAtoms(_)
StrandAtoms(strand) ==
    IF strand = <<>> THEN <<>>
    ELSE AtomsInOrder(Head(strand).pred) \o StrandAtoms(Tail(strand))
StrandSymbols(strand) == Fresh(StrandAtoms(strand), <<>>)

\* The configurations of the symbols, the one that defines them all first.
RECURSIVE Assignments(_)
Assignments(syms) ==
    IF syms = <<>> THEN <<{}>>
    ELSE LET rest == Assignments(Tail(syms))
         IN [i \in 1..Len(rest) |-> rest[i] \cup {Head(syms)}] \o rest

\* The lines of the strand that are active under configuration A.
RECURSIVE SourceOf(_, _)
SourceOf(strand, A) ==
    IF strand = <<>> THEN <<>>
    ELSE (IF ExprHolds(Head(strand).pred, A) THEN Head(strand).lines ELSE <<>>)
         \o SourceOf(Tail(strand), A)

\* The predicate of configuration A: one literal per symbol, joined by &.
RECURSIVE Gate(_, _, _)
Gate(syms, A, acc) ==
    IF syms = <<>> THEN acc
    ELSE Gate(Tail(syms), A,
              bitand(acc, IF Head(syms) \in A THEN Symbol(Head(syms))
                          ELSE Not(Symbol(Head(syms)))))

\* The variants of a strand: one per configuration that leaves it any text.
Variants(strand, sid) ==
    LET syms == StrandSymbols(strand)
        confs == Assignments(syms)
        all == [i \in 1..Len(confs) |->
                  [expr |-> Gate(syms, confs[i], True),
                   source |-> SourceOf(strand, confs[i]),
                   strand |-> sid]]
    IN SelectSeq(all, LAMBDA c : c.source # <<>>)
Parsing(variants) == SelectSeq(variants, LAMBDA c : Parses(c.source))

RECURSIVE Knit(_, _, _, _)
Knit(rest, strand, sid, out) ==
    IF rest = <<>>
    THEN IF strand = <<>> THEN [ok |-> TRUE, chunks |-> out]
         ELSE LET found == Parsing(Variants(strand, sid))
              IN [ok |-> found # <<>>, chunks |-> out \o found]
    ELSE LET longer == Append(strand, Head(rest))
             all == Variants(longer, sid)
         IN IF all # <<>> /\ Parsing(all) = all
            THEN Knit(Tail(rest), <<>>, sid + 1, out \o all)
            ELSE Knit(Tail(rest), longer, sid, out)

\* ParsedUnit::chunks.
Chunks ==
    /\ cstate = "parsed"
    /\ LET k == Knit(atoms, <<>>, 1, <<>>)
       IN /\ chunks' = k.chunks
          /\ cstate' = IF k.ok THEN "ok" ELSE "CouldNotKnit"
    /\ UNCHANGED <<unit, line_n, def_ranges, last_if, atoms>>
    /\ UNCHANGED notChunk

ChunkNext ==
    \/ ParseLine
    \/ ParseEnd
    \/ Chunks

(***************************************************************************)
(* Context (parser/mod.rs): the defines of each name, a bucket of          *)
(* (Expr, Define) pairs; no name is in `unknowns`, which parse_all_2       *)
(* leaves empty.                                                           *)
(***************************************************************************)
NoDefines == [name \in {} |-> <<>>]

\* Context::push: the pair joins the bucket of the name, a new bucket when
\* the name has none.
push(ctx, expr, def) ==
    IF def.name \in DOMAIN ctx
    THEN [ctx EXCEPT ![def.name] = Append(@, <<expr, def>>)]
    ELSE ctx @@ (def.name :> <<<<expr, def>>>>)

\* Context::pop: the bucket of the name is removed.
pop(ctx, name) == [other \in DOMAIN ctx \ {name} |-> ctx[other]]

MultipleDefines == "Multiple defines are unsupported for now"

\* Context::lookup: Defined for a bucket of one pair, the panic for any
\* other bucket, Undefined for a name without one.
ctx_lookup(ctx, name) ==
    IF name \in DOMAIN ctx
    THEN IF Len(ctx[name]) = 1
         THEN [t |-> "Defined", def |-> ctx[name][1]]
         ELSE Panicked(MultipleDefines)
    ELSE [t |-> "Undefined"]

(***************************************************************************)
(* Parser::parse_all_2 and Parser::parse_2 (parser/mod.rs), the walk that  *)
(* Parser::new runs.  A file is a sequence of lines: #include, #if 1 or    *)
(* #if 0, #ifdef NAME, #elif 1, #else, #endif, #define NAME int,           *)
(* #undef NAME, or a line of C text.  An activation of parse_2 is a frame: *)
(* the include it walks, the number of lines it has read, its stack of     *)
(* (bool, Expr) entries and its block of lines not yet parsed as a         *)
(* declaration.                                                            *)
(***************************************************************************)
P2Include(name) == [d |-> "include", inc |-> name]
P2If(truthy) == [d |-> "if", truthy |-> truthy]
P2ElseIf(truthy) == [d |-> "elif", truthy |-> truthy]
P2Define(name) == [d |-> "define", name |-> name]
P2Undef(name) == [d |-> "undef", name |-> name]

RootAlphabet ==
    {P2Include("a.h"), P2Include("b.h"), P2If(TRUE), P2If(FALSE), Else, EndIf,
     Text("struct foo {"), Text("int foo;"), Text("};")}
RootBodies == UNION {[1..k -> RootAlphabet] : k \in 0..MaxRootLines}
HeaderBodies ==
    {<<>>, <<P2Include(Root)>>, <<P2Include("a.h")>>, <<P2Include("b.h")>>,
     <<Text("int foo;")>>, <<Text("struct foo {")>>}
\* The files on disk with root.h holding r: root.h and a.h, and b.h or not.
TreesOf(r) ==
    {(Root :> r) @@ ("a.h" :> a) : a \in HeaderBodies}
    \cup {(Root :> r) @@ ("a.h" :> a) @@ ("b.h" :> b) :
             a \in HeaderBodies,
             b \in {<<>>, <<P2Include("a.h")>>, <<Text("int foo;")>>}}
\* The roots that define, undefine and test the macro A, over an empty a.h.
DefineAlphabet ==
    {P2Define("A"), P2Undef("A"), IfDef("A"), P2If(TRUE), P2ElseIf(TRUE), Else,
     EndIf, Text("A bar;")}
DefineBodies == UNION {[1..k -> DefineAlphabet] : k \in 0..MaxDefLines}
DefineTreeOf(r) == (Root :> r) @@ ("a.h" :> <<>>)

Frame(incl) == [incl |-> incl, pos |-> 0, stack |-> <<>>, block |-> <<>>]

\* A test of the innermost entry only.
path_takenInnermost(stack) == stack = <<>> \/ stack[Len(stack)][1]
\* `fn path_taken`: every entry of the stack has its bool set.
path_taken(stack) == \A i \in 1..Len(stack) : stack[i][1]

\* The expander's lookup of the one macro name a line holds (<<>> if none).
NameIn(s) == IF s = "A bar;" THEN <<"A">> ELSE <<>>
\* must_expand_single on a line of text: the outcome of the lookup of its
\* name, and the line with the name replaced by the value of its define.
ExpandedLine(ctx, s) ==
    IF NameIn(s) = <<>> THEN [t |-> "ok", line |-> s]
    ELSE LET st == ctx_lookup(ctx, NameIn(s)[1])
         IN CASE st.t = "panic" -> st
              [] st.t = "Defined" -> [t |-> "ok", line |-> "int bar;"]
              [] OTHER -> [t |-> "ok", line |-> s]

\* Expr::truthy: true unless the expression is known to be false.
truthy(expr) == truthiness(expr) # <<FALSE>>

\* parse_expr on the tokens of an #if: the Expr of `1`, of `0`, and of
\* `defined(NAME)` once expand_defined replaced it by 1 or 0.
parse_expr(ctx, l) ==
    IF l.d = "ifdef"
    THEN LET st == ctx_lookup(ctx, l.name)
         IN CASE st.t = "panic" -> st
              [] st.t = "Defined" -> Integer(1)
              [] OTHER -> Integer(0)
    ELSE Integer(IF l.truthy THEN 1 ELSE 0)

\* Parser::new calls parse_all_2, which enters parse_2 for the root with a
\* new Context: the root was read and no line of it yet.
Parse2Init ==
    /\ \/ \E r \in RootBodies : tree \in TreesOf(r)
       \/ \E r \in DefineBodies : tree = DefineTreeOf(r)
    /\ frames = <<Frame(Root)>>
    /\ reads = [f \in DOMAIN tree |-> IF f = Root THEN 1 ELSE 0]
    /\ defines = NoDefines
    /\ forwarded = <<>>
    /\ p2state = "run"

Walking == p2state = "run" /\ frames # <<>> /\ Len(frames) <= MaxDepth

\* `tup.0 = !tup.0`: the entry an #else pushes back.
ElseEntry(tup) == <<~tup[1], tup[2]>>

\* One turn of 'each_line in the innermost activation.  An #include on a
\* taken path calls parse_2, which reads the file and starts on its lines.
Parse2Line ==
    /\ Walking
    /\ LET top == frames[Len(frames)]
           file == tree[top.incl]
           with(f) == [frames EXCEPT ![Len(frames)] = f]
           read == [top EXCEPT !.pos = @ + 1]
       IN /\ top.pos < Len(file)
          /\ LET l == file[top.pos + 1]
                 taken == path_taken(top.stack)
                 skip == /\ frames' = with(read)
                         /\ UNCHANGED <<reads, defines, forwarded, p2state>>
                 panic(why) == /\ p2state' = why
                               /\ UNCHANGED <<frames, reads, defines, forwarded>>
             IN CASE l.d = "include" ->
                       IF ~taken THEN skip
                       ELSE IF l.inc \notin DOMAIN tree THEN panic("NotFound")
                       ELSE /\ frames' = Append(with(read), Frame(l.inc))
                            /\ reads' = [reads EXCEPT ![l.inc] = @ + 1]
                            /\ UNCHANGED <<defines, forwarded, p2state>>
                  [] l.d = "define" ->
                       IF ~taken THEN skip
                       ELSE /\ defines' = push(defines, True, l)
                            /\ frames' = with(read)
                            /\ UNCHANGED <<reads, forwarded, p2state>>
                  [] l.d = "undef" ->
                       IF ~taken THEN skip
                       ELSE /\ defines' = pop(defines, l.name)
                            /\ frames' = with(read)
                            /\ UNCHANGED <<reads, forwarded, p2state>>
                  [] l.d \in {"if", "ifdef"} ->
                       LET expr == parse_expr(defines, l)
                       IN IF expr.t = "panic" THEN panic(expr.why)
                          ELSE /\ frames' = with([read EXCEPT !.stack =
                                       Append(@, <<truthy(expr), expr>>)])
                               /\ UNCHANGED <<reads, defines, forwarded, p2state>>
                  [] l.d = "else" ->
                       IF top.stack = <<>> THEN panic("else without if")
                       ELSE /\ frames' = with([read EXCEPT
                                   !.stack[Len(top.stack)] = ElseEntry(@)])
                            /\ UNCHANGED <<reads, defines, forwarded, p2state>>
                  [] l.d = "endif" ->
                       IF top.stack = <<>> THEN panic("endif without if")
                       ELSE /\ frames' = with([read EXCEPT
                                   !.stack = SubSeq(@, 1, Len(@) - 1)])
                            /\ UNCHANGED <<reads, defines, forwarded, p2state>>
                  [] l.d = "elif" -> skip
                  [] l.d = "text" ->
                       IF ~taken THEN skip
                       ELSE LET e == ExpandedLine(defines, l.s)
                                block == Append(top.block, e.line)
                            IN IF e.t = "panic" THEN panic(e.why)
                               ELSE /\ frames' = with([read EXCEPT !.block =
                                           IF Parses(block) THEN <<>> ELSE block])
                                    /\ forwarded' = Append(forwarded, e.line)
                                    /\ UNCHANGED <<reads, defines, p2state>>
    /\ UNCHANGED tree
    /\ UNCHANGED notParse2

\* The lines of the innermost activation are read: it panics on a block
\* that is not empty, and returns Ok(()) to its caller otherwise.
Parse2Return ==
    /\ Walking
    /\ LET top == frames[Len(frames)]
       IN /\ top.pos = Len(tree[top.incl])
          /\ IF top.block # <<>>
             THEN p2state' = "Unprocessed lines" /\ UNCHANGED frames
             ELSE /\ frames' = SubSeq(frames, 1, Len(frames) - 1)
                  /\ p2state' = IF Len(frames) = 1 THEN "ok" ELSE "run"
    /\ UNCHANGED <<tree, reads, defines, forwarded>>
    /\ UNCHANGED notParse2

\* The model stops following a walk nested deeper than MaxDepth.
Parse2Capped ==
    /\ p2state = "run" /\ Len(frames) > MaxDepth
    /\ p2state' = "capped"
    /\ UNCHANGED <<tree, frames, reads, defines, forwarded>>
    /\ UNCHANGED notParse2

Parse2Next ==
    \/ Parse2Line
    \/ Parse2Return
    \/ Parse2Capped

(***************************************************************************)
(* The specifications: one per subsystem, the others at rest.              *)
(***************************************************************************)
ChunkIdle ==
    /\ unit = <<>> /\ line_n = 0 /\ def_ranges = <<>> /\ last_if = <<>>
    /\ atoms = <<>> /\ chunks = <<>> /\ cstate = "idle"
IncludeIdle ==
    /\ disk = [f \in {} |-> {}] /\ unit_queue = <<>> /\ ordered_includes = <<>>
    /\ sources = {} /\ pstate = "idle" /\ run = 0 /\ first_run = NoRun
ExpandIdle ==
    /\ pc = "idle" /\ cx = "add" /\ input = <<>> /\ is = <<>> /\ os = <<>>
    /\ err = "" /\ last = NoLast
SimplifyIdle == sx = True /\ sr = [t |-> "idle"]
ResolveIdle ==
    /\ fs = {} /\ paths = NoPaths /\ rcur = <<>> /\ rlast = NoRead
    /\ rstate = "idle"

Parse2Idle ==
    /\ tree = [f \in {} |-> <<>>] /\ frames = <<>> /\ reads = [f \in {} |-> 0]
    /\ defines = NoDefines /\ forwarded = <<>>
    /\ p2state = "idle"

FoldIdle == fctx = [n \in {} |-> ""] /\ fx = True /\ fr = [t |-> "idle"]

AlgebraIdle == vx = True /\ vy = True /\ vops = <<>> /\ vr = [t |-> "idle"]

Init ==
    /\ ExpandInit /\ SimplifyIdle /\ IncludeIdle /\ ChunkIdle /\ ResolveIdle
    /\ Parse2Idle /\ FoldIdle /\ AlgebraIdle
Next == ExpandNext
Spec == Init /\ [][Next]_vars

SimplifyStart ==
    /\ SimplifyInit /\ ExpandIdle /\ IncludeIdle /\ ChunkIdle /\ ResolveIdle
    /\ Parse2Idle /\ FoldIdle /\ AlgebraIdle
SimplifySpec == SimplifyStart /\ [][SimplifyNext]_vars

IncludeStart ==
    /\ IncludeInit /\ ExpandIdle /\ SimplifyIdle /\ ChunkIdle /\ ResolveIdle
    /\ Parse2Idle /\ FoldIdle /\ AlgebraIdle
IncludeSpec == IncludeStart /\ [][IncludeNext]_vars

ChunkStart ==
    /\ ChunkInit /\ ExpandIdle /\ SimplifyIdle /\ IncludeIdle /\ ResolveIdle
    /\ Parse2Idle /\ FoldIdle /\ AlgebraIdle
ChunkSpec == ChunkStart /\ [][ChunkNext]_vars

ResolveStart ==
    /\ ResolveInit /\ ExpandIdle /\ SimplifyIdle /\ IncludeIdle /\ ChunkIdle
    /\ Parse2Idle /\ FoldIdle /\ AlgebraIdle
ResolveSpec == ResolveStart /\ [][ResolveNext]_vars

Parse2Start ==
    /\ Parse2Init /\ ExpandIdle /\ SimplifyIdle /\ IncludeIdle /\ ChunkIdle
    /\ ResolveIdle /\ FoldIdle /\ AlgebraIdle
Parse2Spec == Parse2Start /\ [][Parse2Next]_vars

FoldStart ==
    /\ FoldInit /\ ExpandIdle /\ SimplifyIdle /\ IncludeIdle /\ ChunkIdle
    /\ ResolveIdle /\ Parse2Idle /\ AlgebraIdle
FoldSpec == FoldStart /\ [][FoldNext]_vars

AlgebraStart ==
    /\ AlgebraInit /\ ExpandIdle /\ SimplifyIdle /\ IncludeIdle /\ ChunkIdle
    /\ ResolveIdle /\ Parse2Idle /\ FoldIdle
AlgebraSpec == AlgebraStart /\ [][AlgebraNext]_vars

(***************************************************************************)
(* Properties of the expander.                                             *)
(*                                                                         *)
(* Vocabulary shared by the properties, stated on the raw token sequence   *)
(* without the expander's own loops.                                       *)
(***************************************************************************)
SetMin(S) == CHOOSE x \in S : \A y \in S : x <= y
SetMax(S) == CHOOSE x \in S : \A y \in S : y <= x
\* The k-th smallest element of S.
Kth(S, k) == CHOOSE x \in S : Cardinality({y \in S : y < x}) = k - 1

\* Nesting depth after the i-th token of s, s starting just after a "(".
DepthAfter(s, i) ==
    1 + Cardinality({j \in 1..i : IsPun(s[j], "(")})
      - Cardinality({j \in 1..i : IsPun(s[j], ")")})
\* The n-th token of s is the ")" that balances the "(" before s.
Balances(s, n) ==
    /\ n \in 1..Len(s)
    /\ DepthAfter(s, n) = 0
    /\ \A i \in 1..(n - 1) : DepthAfter(s, i) > 0
NeverBalances(s) == \A i \in 1..Len(s) : DepthAfter(s, i) > 0
\* The commas at nesting depth 1 before the balancing ")" at n.
Seps(s, n) == {i \in 1..(n - 1) : IsPun(s[i], ",") /\ DepthAfter(s, i) = 1}
\* The tokens between the (k-1)-th and the k-th such comma.
Segment(s, n, k) ==
    LET cuts == Seps(s, n) \cup {0, n}
    IN SubSeq(s, Kth(cuts, k) + 1, Kth(cuts, k + 1) - 1)
\* A segment without its leading and trailing whitespace tokens.
Trimmed(seg) ==
    LET solid == {i \in 1..Len(seg) : seg[i].k # "WS"}
    IN IF solid = {} THEN <<>> ELSE SubSeq(seg, SetMin(solid), SetMax(solid))
\* The k-th actual of the recorded invocation, from its raw tokens.
RawActual(k) == Trimmed(Segment(last.args, Len(last.args), k))
\* s starts with optional whitespace and then "(", the "(" at position p.
OpenAt(s, p) ==
    /\ p \in 1..Len(s)
    /\ IsPun(s[p], "(")
    /\ \A j \in 1..(p - 1) : s[j].k = "WS"
\* The head of the pending input is an invocation of a function-like macro.
AtInvocation ==
    /\ Running /\ is # <<>>
    /\ ~hides(Head(is)) /\ IsMacroHead(cx, Head(is))
    /\ Defs(cx)[Head(is).v].fn
    /\ \E p \in 1..Len(Tail(is)) : OpenAt(Tail(is), p)
\* The tokens after the "(" of that invocation.
AfterOpen ==
    LET s == Tail(is)
        p == CHOOSE q \in 1..Len(s) : OpenAt(s, q)
    IN SubSeq(s, p + 1, Len(s))
\* Two string tokens of s with nothing but whitespace between them.
AdjacentStrings(s) ==
    \E i, j \in 1..Len(s) :
        /\ i < j /\ s[i].k = "Str" /\ s[j].k = "Str"
        /\ \A m \in (i + 1)..(j - 1) : s[m].k = "WS"

\* A turn of expand's loop that hands back the configuration it started from.
TurnRepeats ==
    /\ Running /\ is # <<>>
    /\ ~hides(Head(is)) /\ IsMacroHead(cx, Head(is))
    /\ LET out == expand_single_macro_invocation(Tail(is), Head(is).v, Head(is),
                                                 Defs(cx)[Head(is).v])
       IN out.t = "advance" /\ out.is = is
\* C1: expand halts on every input.  expand is deterministic and its only
\* state is the pending input and the output, so it halts only if no turn of
\* its loop hands back the configuration it started from (such a turn is
\* repeated for ever): no reachable turn does.
ExpandHalts == ~TurnRepeats

\* C2 (as claimed): no token of the output was produced by applying the
\* definition of a macro M and then the definition of M again further down
\* its derivation chain.
NoSelfReExpansion == \A i \in 1..Len(os) : ~os[i].re

\* C2 (amended): expand never applies the definition of M to a name whose
\* hide set contains M, and a name M read from M's own replacement list
\* always carries M in its hide set, so it is emitted unexpanded: FOO(y) with
\* FOO(x) defined as FOO() yields FOO().
HideSetSound ==
    /\ last.name # <<>> => last.name \notin last.head.hs
    /\ \A i \in 1..Len(is \o os) :
         LET t == (is \o os)[i]
         IN (t.k = "Name" /\ t.of = t.v) => t.v \in t.hs
    /\ (cx = "hide" /\ input = Invoke(nFOO, <<NameT(nY)>>) /\ pc # "run")
         => (pc = "done"
             /\ Bare(os) = <<B("Name", nFOO), B("Pun", <<"(">>), B("Pun", <<")">>)>>)
HideSetWitness ==
    /\ cx = "hide" /\ input = Invoke(nFOO, <<NameT(nY)>>) /\ pc = "done"
    /\ Len(os) = 3 /\ os[1].v = nFOO /\ os[1].of = nFOO /\ nFOO \in os[1].hs

\* C6: after a function-like macro name, optional whitespace and "(", the
\* actuals are the stretches between the commas at depth 1 up to the ")" that
\* balances the "(", each without its leading and trailing whitespace; the
\* tokens after that ")" stay in the input; input that ends before it is an
\* UnclosedMacroInvocation; ADD   (  1,  2  ) expands to 1+2.
ActualsParsedStep ==
    /\ AtInvocation =>
         LET s == AfterOpen
         IN IF NeverBalances(s)
            THEN pc' = "error" /\ err' = "UnclosedMacroInvocation"
            ELSE LET n == CHOOSE m \in 1..Len(s) : Balances(s, m)
                 IN /\ err' # "UnclosedMacroInvocation"
                    /\ pc' = "run" =>
                         /\ last'.args = SubSeq(s, 1, n)
                         /\ Len(last'.actuals) = Cardinality(Seps(s, n)) + 1
                         /\ \A k \in 1..Len(last'.actuals) :
                              last'.actuals[k] = Trimmed(Segment(s, n, k))
                         /\ is' = last'.temp \o SubSeq(s, n + 1, Len(s))
    /\ (cx = "add" /\ input \in Literal("add") /\ pc' # "run")
         => (pc' = "done"
             /\ Bare(os') = <<B("Int", <<"1">>), B("Pun", <<"+">>), B("Int", <<"2">>)>>)
ActualsParsed == [][ActualsParsedStep]_vars
ActualsWitness ==
    /\ cx = "add" /\ input \in Literal("add") /\ pc = "done"
    /\ last.name = nADD /\ Len(last.actuals) = 2
    /\ Bare(last.actuals[2]) = <<B("Int", <<"2">>)>>
    /\ Len(os) = 3

\* C7: # X for a parameter X emits exactly one Str token, spelled as the
\* tokens of the actual as written, trimmed, interior whitespace kept:
\* S(   2 + 3        ) with S(x) -> # x yields the single string "2 + 3".
StringizeOneString ==
    /\ (cx = "strgz" /\ last.name = nS) =>
         /\ Len(last.temp) = 1
         /\ last.temp[1].k = "Str"
         /\ last.temp[1].v = DisplayAll(RawActual(1))
    /\ (cx = "strgz" /\ last.name = nS2) =>
         /\ Cardinality({j \in 1..Len(last.temp) : last.temp[j].k = "Str"}) = 2
         /\ \A j \in 1..Len(last.temp) : last.temp[j].k \in {"Str", "WS"}
         /\ last.temp[1].k = "Str" /\ last.temp[Len(last.temp)].k = "Str"
         /\ last.temp[1].v = DisplayAll(RawActual(1))
         /\ last.temp[Len(last.temp)].v = DisplayAll(RawActual(2))
    /\ (cx = "strgz" /\ pc # "run"
        /\ input = Invoke(nS, <<WS, IntT(<<"2">>), WS, PunT("+"), WS, IntT(<<"3">>), WS>>))
         => (pc = "done" /\ Bare(os) = <<B("Str", <<"2", " ", "+", " ", "3">>)>>)
StringizeWitness ==
    /\ cx = "strgz" /\ pc = "done"
    /\ input = Invoke(nS, <<WS, IntT(<<"2">>), WS, PunT("+"), WS, IntT(<<"3">>), WS>>)
    /\ Len(last.actuals[1]) = 5
    /\ Bare(os) = <<B("Str", <<"2", " ", "+", " ", "3">>)>>

\* C8: expanding S2(a, b) with S2(x, y) -> # x # y yields one String token
\* per stringized parameter, separated by whitespace: S2(  foo ,  bar )
\* expands to String(foo), Whitespace, String(bar).
StringizeEachSeparate ==
    (cx = "strgz" /\ pc = "done"
     /\ input = Invoke(nS2, <<WS, NameT(nFoo), WS, PunT(","), WS, NameT(nBar), WS>>))
      => Bare(os) = <<B("Str", nFoo), B("WS", <<>>), B("Str", nBar)>>

\* C9: the output of expand never holds two String tokens separated only by
\* whitespace, also when one of them comes from a macro after the first.
NoAdjacentStrings == pc = "done" => ~AdjacentStrings(os)

\* C10: x ## y drops the whitespace around ##, replaces the last token of
\* the left actual and the first token of the right actual by one glued token
\* whose hide set is the intersection of theirs, and the rest of the right
\* actual follows unchanged: P(foo,bar) yields foobar, P(123,456) 123456.
PasteGlues ==
    /\ (cx = "paste" /\ last.name = nP /\ Len(last.actuals) >= 2
        /\ RawActual(1) # <<>> /\ RawActual(2) # <<>>) =>
         LET ax == RawActual(1)
             ay == RawActual(2)
             g == last.temp[Len(ax)]
         IN /\ Len(last.temp) = Len(ax) + Len(ay) - 1
            /\ SubSeq(last.temp, 1, Len(ax) - 1) = SubSeq(ax, 1, Len(ax) - 1)
            /\ Display(g) = Display(ax[Len(ax)]) \o Display(ay[1])
            /\ g.hs = ax[Len(ax)].hs \cap ay[1].hs
            /\ SubSeq(last.temp, Len(ax) + 1, Len(last.temp)) = Tail(ay)
    /\ (cx = "paste" /\ pc # "run"
        /\ input = Invoke(nP, <<NameT(nFoo), PunT(","), NameT(nBar)>>))
         => (pc = "done" /\ Bare(os) = <<B("Name", nFoo \o nBar)>>)
    /\ (cx = "paste" /\ pc # "run"
        /\ input = Invoke(nP, <<IntT(<<"1", "2", "3">>), PunT(","),
                                IntT(<<"4", "5", "6">>)>>))
         => (pc = "done" /\ Bare(os) = <<B("Int", <<"1", "2", "3", "4", "5", "6">>)>>)
PasteWitness ==
    /\ cx = "paste" /\ pc = "done" /\ last.name = nP
    /\ Len(RawActual(1)) = 3 /\ Len(RawActual(2)) = 3
    /\ Bare(os) = <<B("Name", nA), B("WS", <<>>), B("Name", nB \o nFoo),
                    B("WS", <<>>), B("Name", nBar)>>

\* The operand of `defined` at the start of s, read off the non-whitespace
\* tokens of s: NAME, or ( NAME ); end is the position of its last token.
DefinedOperand(s) ==
    LET solid == {i \in 1..Len(s) : s[i].k # "WS"}
        n == Cardinality(solid)
        at(k) == s[Kth(solid, k)]
    IN IF n >= 1 /\ at(1).k = "Name"
       THEN [ok |-> TRUE, name |-> at(1).v, end |-> Kth(solid, 1)]
       ELSE IF n >= 3 /\ IsPun(at(1), "(") /\ at(2).k = "Name" /\ IsPun(at(3), ")")
       THEN [ok |-> TRUE, name |-> at(2).v, end |-> Kth(solid, 3)]
       ELSE [ok |-> FALSE, name |-> <<>>, end |-> 0]

\* C11: `defined NAME` and `defined ( NAME )`, with any whitespace between
\* the parts, are replaced by one Int token, 1 if NAME is defined in the
\* context and 0 otherwise, carrying the hide set of the `defined` token;
\* NAME is not macro-expanded, every token through NAME or the ")" leaves the
\* input and the tokens after it stay to be processed:
\* `defined  (    E  ) ` yields 1 and the trailing whitespace.
DefinedReplacedStep ==
    /\ (Running /\ is # <<>> /\ Head(is).k = "Defined"
        /\ DefinedOperand(Tail(is)).ok) =>
         LET d == DefinedOperand(Tail(is))
             new == os'[Len(os')]
         IN /\ pc' = "run" /\ err' = ""
            /\ Len(os') = Len(os) + 1
            /\ SubSeq(os', 1, Len(os)) = os
            /\ new.k = "Int"
            /\ new.v = IF d.name \in DOMAIN Defs(cx) THEN <<"1">> ELSE <<"0">>
            /\ new.hs = Head(is).hs
            /\ is' = SubSeq(Tail(is), d.end + 1, Len(Tail(is)))
            /\ last' = last
    /\ (cx = "empty" /\ input \in Literal("empty") /\ pc' # "run")
         => (pc' = "done" /\ Bare(os') = <<B("Int", <<"1">>), B("WS", <<>>)>>)
    /\ (cx = "defd" /\ input \in Literal("defd") /\ pc' # "run")
         => (pc' = "done"
             /\ Bare(os') = <<B("Int", <<"1">>), B("WS", <<>>), B("Int", <<"2">>)>>)
DefinedReplaced == [][DefinedReplacedStep]_vars
DefinedWitness ==
    /\ cx = "defd" /\ input = Invoke(nD, <<NameT(nFOO)>>) /\ pc = "done"
    /\ Len(os) = 1 /\ os[1].k = "Int" /\ os[1].v = <<"1">> /\ os[1].hs = {nD}
    /\ last.name = nD

\* C18: every token that subst emits for macro M carries the hide set of
\* the substitution, which holds M: hs(head) \cup {M} for an object-like
\* macro and (hs(head) \cap hs(closing paren)) \cup {M} for a function-like
\* one; this holds for verbatim tokens, for tokens copied from the actuals,
\* for stringized strings and for the tokens ## produces.
SubstHidesAll ==
    last.name # <<>> =>
        /\ last.sub_hs =
             IF last.fn
             THEN (last.head.hs \cap last.closparen_hs) \cup {last.name}
             ELSE last.head.hs \cup {last.name}
        /\ \A i \in 1..Len(last.temp) : last.sub_hs \subseteq last.temp[i].hs

\* The head of the pending input names a function-like macro and the first
\* token after it that is no whitespace is no "(" (or there is none).
AtBareMacroName ==
    /\ Running /\ is # <<>>
    /\ ~hides(Head(is)) /\ IsMacroHead(cx, Head(is))
    /\ Defs(cx)[Head(is).v].fn
    /\ ~\E p \in 1..Len(Tail(is)) : OpenAt(Tail(is), p)

\* C19: when the name of a function-like macro is not followed, after
\* optional whitespace, by "(", expand emits the name unchanged and the
\* tokens it looked at (the whitespace and the token that is no "(") are
\* back in front of the input in their order, to be processed next: nothing
\* is lost, doubled or reordered; at the end of the input the name and the
\* whitespace after it are emitted as they are.
RewindKeepsTokensStep ==
    /\ AtBareMacroName =>
         /\ os' = Append(os, Head(is))
         /\ is' = Tail(is)
         /\ pc' = "run" /\ err' = "" /\ last' = last
    /\ (cx = "add" /\ input = <<NameT(nADD), WS>> /\ pc' # "run")
         => (pc' = "done" /\ os' = input)
    /\ (cx = "add" /\ input = <<NameT(nADD), WS, IntT(<<"1">>)>> /\ pc' # "run")
         => (pc' = "done" /\ os' = input)
RewindKeepsTokens == [][RewindKeepsTokensStep]_vars
RewindWitness ==
    /\ cx = "add" /\ input = <<NameT(nADD), WS, IntT(<<"1">>)>>
    /\ pc = "done" /\ os = input /\ last = NoLast

\* C20: a # of a replacement list that is followed by a name that is no
\* parameter of the macro (any name, in an object-like macro), by a token
\* that is no name, or by nothing, makes subst fail with
\* InvalidStringizing: with Q(x) -> # y, H -> # foo, N(x) -> # 1 and
\* L(x) -> x #, no substitution of these macros succeeds, and expanding an
\* invocation of one of them ends in that error.
StringizeNonParamFails ==
    /\ cx = "badstr" => last = NoLast
    /\ (cx = "badstr" /\ pc # "run"
        /\ input \in {<<NameT(nH)>>} \cup {Invoke(m, <<IntT(<<"1">>)>>) : m \in {nQ, nN, nL}})
         => (pc = "error" /\ err = "InvalidStringizing")

\* The actuals of the invocation at the head of the pending input.
HeadActuals ==
    LET sk == skip_ws(Tail(is), <<>>)
    IN parse_actuals(sk.rest, sk.saved).actuals

\* C21: for `x ## y` where the actual of y is empty, subst emits the left
\* operand unchanged and nothing else, and goes on without error; ## fails
\* with InvalidTokenPaste only when no left operand is in the output buffer
\* or no token follows ##.  With P(x, y) -> x ## y, whose ## always has a
\* token after it: an invocation fails with InvalidTokenPaste only when the
\* actual of x is empty, and P(foo,) expands to foo.
PasteEmptyRightKeepsLeft ==
    /\ (cx = "paste" /\ pc = "error" /\ err = "InvalidTokenPaste")
         => HeadActuals[1] = <<>>
    /\ (cx = "paste" /\ pc = "done"
        /\ input = Invoke(nP, <<NameT(nFoo), PunT(",")>>))
         => Bare(os) = Bare(<<NameT(nFoo)>>)

\* The positions in fp of the parameters that occur in the replacement list.
UsedParams(def) ==
    {i \in 1..Len(def.fp) :
        \E j \in 1..Len(def.value) :
            def.value[j].k = "Name" /\ def.value[j].v = def.fp[i]}
\* The head of the pending input is an invocation whose "(" is balanced.
AtClosedInvocation == AtInvocation /\ ~NeverBalances(AfterOpen)
\* The number of actuals written in it: its commas at depth 1, plus one.
Supplied ==
    LET n == CHOOSE m \in 1..Len(AfterOpen) : Balances(AfterOpen, m)
    IN Cardinality(Seps(AfterOpen, n)) + 1
\* A parameter of the replacement list has no actual at its index.
ActualMissing ==
    \E i \in UsedParams(Defs(cx)[Head(is).v]) : i > Supplied

\* C30 as stated: a parameter that occurs in the replacement list must have
\* an actual at its index; an invocation with fewer actuals fails, always
\* with MissingMacroParam; empty parentheses supply exactly one empty actual,
\* so a one-parameter macro invoked as FOO() is substituted without that
\* error.
MissingActualIsMissingParamStep ==
    AtClosedInvocation =>
        /\ ActualMissing => (pc' = "error" /\ err' = "MissingMacroParam")
        /\ (Balances(AfterOpen, 1) /\ Len(Defs(cx)[Head(is).v].fp) = 1)
             => /\ err' # "MissingMacroParam"
                /\ pc' = "run" => last'.actuals = <<<<>>>>
MissingActualIsMissingParam == [][MissingActualIsMissingParamStep]_vars

\* C30, amended: an invocation with fewer actuals than a parameter of the
\* replacement list requires always fails; the error is MissingMacroParam,
\* except that a ## whose left operand is the empty first actual fails first
\* with InvalidTokenPaste (P() with P(x, y) -> x ## y); MissingMacroParam is
\* raised in no other case; empty parentheses supply exactly one empty
\* actual: FOO() with FOO(x) -> x(x) gives `()`, ADD(1) with
\* ADD(x,y) -> x+y fails.
ActualAtIndexStep ==
    /\ AtClosedInvocation =>
         LET def == Defs(cx)[Head(is).v]
             n == CHOOSE m \in 1..Len(AfterOpen) : Balances(AfterOpen, m)
         IN /\ ActualMissing =>
                 /\ pc' = "error"
                 /\ \/ err' = "MissingMacroParam"
                    \/ /\ err' = "InvalidTokenPaste"
                       /\ \E j \in 1..Len(def.value) : def.value[j].k = "Paste"
                       /\ Trimmed(Segment(AfterOpen, n, 1)) = <<>>
            /\ ~ActualMissing => err' # "MissingMacroParam"
            /\ (Balances(AfterOpen, 1) /\ pc' = "run")
                 => last'.actuals = <<<<>>>>
    /\ (cx = "selfarg" /\ input = Invoke(nFOO, <<>>) /\ pc' # "run")
         => (pc' = "done" /\ Bare(os') = <<B("Pun", <<"(">>), B("Pun", <<")">>)>>)
    /\ (cx = "add" /\ input = Invoke(nADD, <<IntT(<<"1">>)>>) /\ pc' # "run")
         => (pc' = "error" /\ err' = "MissingMacroParam")
ActualAtIndex == [][ActualAtIndexStep]_vars
ActualAtIndexWitness ==
    /\ cx = "add" /\ input = Invoke(nADD, <<IntT(<<"1">>)>>)
    /\ pc = "error" /\ err = "MissingMacroParam" /\ os = <<>>

(***************************************************************************)
(* Properties of the Expr operators.                                       *)
(***************************************************************************)
\* e contains a node of kind k ("And" or "Or") directly inside such a node.
RECURSIVE Nests(_, _)
Nests(e, k) ==
    CASE e.t \in {"And", "Or"} ->
           \/ e.t = k /\ \E i \in 1..Len(e.c) : e.c[i].t = k
           \/ \E i \in 1..Len(e.c) : Nests(e.c[i], k)
      [] e.t = "Not" -> Nests(e.v, k)
      [] OTHER -> FALSE

\* The laws of & and | for the operands x and y and the result r of an
\* operator whose identity, absorbing element and node kind are given.
Lattice(x, y, r, identity, absorbing, k) ==
    /\ y = identity => r = x
    /\ x = identity => r = y
    /\ (x = absorbing \/ y = absorbing) => r = absorbing
    /\ (x.t = k /\ y.t = k) => (r.t = k /\ r.c = x.c \o y.c)
    /\ \A n \in {"And", "Or"} : (~Nests(x, n) /\ ~Nests(y, n)) => ~Nests(r, n)

\* C23 as stated: for all operands, x & True = True & x = x,
\* x & False = False & x = False, x | False = False | x = x,
\* x | True = True | x = True, !(!x) = x, And(xs) & And(ys) = And(xs ++ ys),
\* Or(xs) | Or(ys) = Or(xs ++ ys), and operands without an And directly in an
\* And (an Or in an Or) give a result without one.
OperatorLaws ==
    /\ vops = <<"&">> => Lattice(vx, vy, vr, True, False, "And")
    /\ vops = <<"|">> => Lattice(vx, vy, vr, False, True, "Or")
    /\ vops = <<"!", "!">> => vr = vx

\* C23, amended: the laws of & and | hold for all operands; !(!x) = x holds
\* for every x that is no negation of a negation, and for x = Not(Not(z))
\* the two negations give z.
OperatorLawsOutsideDoubleNot ==
    /\ vops = <<"&">> => Lattice(vx, vy, vr, True, False, "And")
    /\ vops = <<"|">> => Lattice(vx, vy, vr, False, True, "Or")
    /\ vops = <<"!", "!">> =>
         vr = IF vx.t = "Not" /\ vx.v.t = "Not" THEN vx.v.v ELSE vx
OperatorLawsWitness ==
    /\ vops = <<"!", "!">> /\ vx = Not(Symbol("a")) /\ vr = Not(Symbol("a"))

(***************************************************************************)
(* Properties of the simplifier.                                           *)
(***************************************************************************)
AtomSet == {SimpAtoms[i] : i \in 1..Len(SimpAtoms)}

\* C4: simplify(e) has the truth value of e under every assignment of e's
\* atoms, and simplify never fails its assertion that the minimizer returned
\* a single form.
SimplifyFaithful ==
    sr.t \notin {"pending", "idle"} =>
        /\ sr.t # "panic"
        /\ \A A \in SUBSET AtomSet : ExprHolds(sr, A) <=> ExprHolds(sx, A)

(***************************************************************************)
(* Properties of the include driver.                                       *)
(***************************************************************************)
\* C5: two runs of parse_all over the same files and search paths end with
\* the same ordered include list.
IncludeOrderDeterministic ==
    (run = 2 /\ pstate = "ok" /\ first_run.st = "ok")
        => ordered_includes = first_run.ordered_includes

\* The includes at most k #include directives away from the root.
RECURSIVE Within(_)
Within(k) ==
    IF k = 0 THEN {Root}
    ELSE Within(k - 1) \cup UNION {disk[f] : f \in Within(k - 1) \cap DOMAIN disk}
\* The breadth-first level of include f.
Level(f) == SetMin({k \in 0..Cardinality(Includes) : f \in Within(k)})

\* C15: the ordered include list is the breadth-first first-encounter order
\* of the include graph from the root: it holds every include reachable from
\* the root exactly once, also one that several units include, and an include
\* of a lower breadth-first level comes before every include of a higher one.
IncludesListedBreadthFirst ==
    pstate = "ok" =>
        /\ {ordered_includes[i] : i \in 1..Len(ordered_includes)}
              = Within(Cardinality(Includes))
        /\ \A i, j \in 1..Len(ordered_includes) :
              ordered_includes[i] = ordered_includes[j] => i = j
        /\ \A i, j \in 1..Len(ordered_includes) :
              i < j => Level(ordered_includes[i]) <= Level(ordered_includes[j])

\* The directories a lookup of include from a file in directory dir is to
\* try, in order.
Candidates(include, dir) ==
    IF include.kind = "Quoted"
    THEN <<dir>> \o paths.quoted_paths \o paths.system_paths
    ELSE paths.system_paths

\* C13: read_include returns the first existing candidate: for a quoted
\* include the directory of the including file, then the quoted paths in
\* list order, then the system paths in list order; for a system include the
\* system paths only; it fails with NotFound when no candidate exists.
ResolveFirstExisting ==
    rlast.read =>
        LET dirs == Candidates(rlast.include, rlast.from[1])
            hits == {i \in 1..Len(dirs) : <<dirs[i], rlast.include.path>> \in fs}
        IN IF hits = {}
           THEN rlast.path = <<>> /\ rstate = "NotFound"
           ELSE rlast.path = <<<<dirs[SetMin(hits)], rlast.include.path>>>>

(***************************************************************************)
(* Properties of the chunker.                                              *)
(***************************************************************************)
UnitSymbols == {l.name : l \in {unit[i] : i \in {j \in 1..Len(unit) : unit[j].d = "ifdef"}}}
Overlap(c, d) ==
    \E A \in SUBSET UnitSymbols : ExprHolds(c.expr, A) /\ ExprHolds(d.expr, A)
Chunk(e, lines) == [expr |-> e, source |-> lines]
ChunkList == [i \in 1..Len(chunks) |-> Chunk(chunks[i].expr, chunks[i].source)]

\* The chunk lists the tests of test_chunks.rs expect.
Expected(u) ==
    CASE u = SingleAtomStrands ->
           <<Chunk(Symbol("FOO"), <<"int foo();">>),
             Chunk(Symbol("BAR"), <<"int bar();">>)>>
      [] u = NestedIfdefs ->
           <<Chunk(Symbol("FOO"), <<"int foo();">>),
             Chunk(And(<<Symbol("FOO"), Symbol("BAR")>>), <<"int foobar();">>)>>
      [] u = GatedStructField ->
           <<Chunk(Symbol("EVIL"), <<"struct foo {", "int lawful;", "int evil;", "};">>),
             Chunk(Not(Symbol("EVIL")), <<"struct foo {", "int lawful;", "};">>)>>
      [] u = GatedStructFieldIfElse ->
           <<Chunk(Symbol("EVIL"), <<"struct foo {", "int lawful;", "int evil;", "};">>),
             Chunk(Not(Symbol("EVIL")),
                   <<"struct foo {", "int lawful;", "int good;", "};">>)>>
      [] u = GatedStructCloseIfElse ->
           <<Chunk(Symbol("EVIL"), <<"struct foo {", "int lawful;", "};">>),
             Chunk(Not(Symbol("EVIL")), <<"struct foo {", "int lawful;", "};">>)>>
      [] u = GatedStructCloseConvoluted ->
           <<Chunk(And(<<Symbol("BAR"), Symbol("BAZ")>>),
                   <<"struct foo {", "int foo;", "struct bar {", "int bar;",
                     "} nested;", "};">>),
             Chunk(And(<<Not(Symbol("BAR")), Not(Symbol("BAZ"))>>),
                   <<"struct foo {", "int foo;", "};">>)>>

RECURSIVE CondStack(_, _)
CondStack(u, k) ==
    IF k = 0 THEN <<>>
    ELSE LET st == CondStack(u, k - 1)
             l == u[k]
         IN CASE l.d = "ifdef" -> Append(st, [sym |-> l.name, on |-> TRUE])
              [] l.d = "else" -> [st EXCEPT ![Len(st)].on = FALSE]
              [] l.d = "endif" -> SubSeq(st, 1, Len(st) - 1)
              [] OTHER -> st
Enclosing(u, k) ==
    LET st == CondStack(u, k) IN {st[j] : j \in 1..Len(st)}
\* Every condition around line k holds wherever predicate P does.
ActiveUnder(u, k, P) ==
    \A A \in SUBSET UnitSymbols :
        ExprHolds(P, A) => \A c \in Enclosing(u, k) : (c.sym \in A) = c.on
\* The text of lines a..b of u that is active under P, in source order.
RECURSIVE ActiveLines(_, _, _, _)
ActiveLines(u, a, b, P) ==
    IF a > b THEN <<>>
    ELSE (IF u[a].d = "text" /\ ActiveUnder(u, a, P) THEN <<u[a].s>> ELSE <<>>)
         \o ActiveLines(u, a + 1, b, P)

ElseMatchedByNestingStep ==
    (cstate = "parse" /\ line_n < Len(unit) /\ unit[line_n + 1].d = "else") =>
        LET st == CondStack(unit, line_n)
            own == Symbol(st[Len(st)].sym)
        IN /\ cstate' = "parse"
           /\ Len(def_ranges') = Len(def_ranges)
           /\ def_ranges'[Len(def_ranges')] =
                bitand(def_ranges[Len(def_ranges) - 1], Not(own))
ElseMatchedByNesting == [][ElseMatchedByNestingStep]_vars

(***************************************************************************)
(* Properties of the walk of Parser::new.                                  *)
(***************************************************************************)
\* C14: building a Parser over files whose #include directives form a cycle
\* ends, and each include is read and walked at most once: no file is
\* returned by read_include twice, and no activation of parse_2 is entered
\* for an include that an activation still open is walking.
IncludesReadOnce ==
    /\ \A f \in DOMAIN reads : reads[f] <= 1
    /\ \A i, j \in 1..Len(frames) : frames[i].incl = frames[j].incl => i = j

\* C17: lines that fail to parse as C never abort the walk of their unit,
\* also when they are still unparsed at the end of the unit: the walk ends
\* with Ok or with an error value, never with the panic on the lines left.
ParseFailureNoAbort == p2state # "Unprocessed lines"

\* The innermost activation has a line left to read.
AtLine ==
    /\ Walking
    /\ frames[Len(frames)].pos < Len(tree[frames[Len(frames)].incl])
CurLine == tree[frames[Len(frames)].incl][frames[Len(frames)].pos + 1]
\* No entry of the innermost activation's stack is inactive.
AllActive ==
    ~\E i \in 1..Len(frames[Len(frames)].stack) :
        frames[Len(frames)].stack[i][1] = FALSE
\* The number of defines the context holds for a name.
Held(ctx, name) == IF name \in DOMAIN ctx THEN Len(ctx[name]) ELSE 0

\* C25: in the walker a #define or #undef is applied to the context, an
\* #include is resolved and walked, and a line of text is expanded and
\* forwarded, if and only if every entry of the conditional stack is active;
\* on a path not taken the context, the files read and the lines forwarded
\* stay as they are, whatever #if, #else and #endif lie inside the region
\* not taken.
ActsIffPathTakenStep ==
    AtLine =>
        LET l == CurLine
            top == frames[Len(frames)]
            now == frames'[Len(frames)]
        IN /\ ~AllActive =>
                /\ defines' = defines /\ forwarded' = forwarded /\ reads' = reads
                /\ Len(frames') = Len(frames) /\ now.block = top.block
                /\ l.d \in {"define", "undef", "include", "text"} =>
                     (p2state' = "run" /\ now = [top EXCEPT !.pos = @ + 1])
           /\ (AllActive /\ l.d = "define") =>
                /\ Held(defines', l.name) = Held(defines, l.name) + 1
                /\ forwarded' = forwarded /\ reads' = reads
           /\ (AllActive /\ l.d = "undef") =>
                /\ Held(defines', l.name) = 0
                /\ forwarded' = forwarded /\ reads' = reads
           /\ (AllActive /\ l.d = "include") =>
                \/ l.inc \notin DOMAIN tree /\ p2state' = "NotFound"
                \/ /\ l.inc \in DOMAIN tree
                   /\ frames'[Len(frames')] = Frame(l.inc)
                   /\ Len(frames') = Len(frames) + 1
                   /\ reads'[l.inc] = reads[l.inc] + 1
           /\ (AllActive /\ l.d = "text") =>
                \/ p2state' = MultipleDefines /\ Held(defines, "A") > 1
                \/ /\ Len(forwarded') = Len(forwarded) + 1
                   /\ forwarded'[Len(forwarded')] =
                        IF l.s = "A bar;" /\ Held(defines, "A") = 1
                        THEN "int bar;" ELSE l.s
                   /\ defines' = defines
ActsIffPathTaken == [][ActsIffPathTakenStep]_vars
PathNotTakenWitness ==
    /\ tree[Root] = <<IfDef("A"), P2If(TRUE), P2Define("A"), EndIf>>
    /\ frames # <<>> /\ frames[1].pos = 3
    /\ frames[1].stack = <<<<FALSE, Integer(0)>>, <<TRUE, Integer(1)>>>>
    /\ defines = NoDefines

\* C26: on #else the walker pops the top entry, inverts its predicate and
\* pushes it back: the depth of the stack is unchanged, the predicate of the
\* entry pushed is the negation of the predicate of the entry popped, and
\* its active flag agrees with the negated predicate.
ElseInvertsPredicateStep ==
    (AtLine /\ CurLine.d = "else" /\ frames[Len(frames)].stack # <<>>) =>
        LET old == frames[Len(frames)].stack
            new == frames'[Len(frames)].stack
        IN /\ p2state' = "run"
           /\ Len(new) = Len(old)
           /\ SubSeq(new, 1, Len(new) - 1) = SubSeq(old, 1, Len(old) - 1)
           /\ truthiness(new[Len(new)][2]) = <<~truthiness(old[Len(old)][2])[1]>>
           /\ new[Len(new)][1] = truthy(new[Len(new)][2])
ElseInvertsPredicate == [][ElseInvertsPredicateStep]_vars

\* For each #if open after the first k lines of a file, the directive that
\* opened its current branch: "if", "elif" or "else".
RECURSIVE Branches(_, _)
Branches(file, k) ==
    IF k = 0 THEN <<>>
    ELSE LET before == Branches(file, k - 1)
             d == file[k].d
             retag(tag) == IF before = <<>> THEN before
                           ELSE [before EXCEPT ![Len(before)] = tag]
         IN CASE d \in {"if", "ifdef"} -> Append(before, "if")
              [] d = "elif" -> retag("elif")
              [] d = "else" -> retag("else")
              [] d = "endif" -> SubSeq(before, 1, Len(before) - 1)
              [] OTHER -> before

\* C27: the branches of a chain #if A / #elif B1 / ... / #else are mutually
\* exclusive and exhaustive, and in the walker an #elif deactivates the
\* branch before it: an #elif that follows an active #if branch leaves the
\* entry inactive, so that the lines after it are not taken for lines of the
\* #if branch, and the #else after an #elif whose condition is true is
\* inactive.
ElifEndsBranchStep ==
    (AtLine /\ frames[Len(frames)].stack # <<>>) =>
        LET top == frames[Len(frames)]
            tags == Branches(tree[top.incl], top.pos)
            old == top.stack[Len(top.stack)]
            new == frames'[Len(frames)].stack[Len(top.stack)]
        IN /\ (CurLine.d = "elif" /\ tags[Len(tags)] = "if" /\ old[1])
                => (p2state' = "run" /\ ~new[1])
           /\ (CurLine.d = "else" /\ tags[Len(tags)] = "elif")
                => (p2state' = "run" /\ ~new[1])
ElifEndsBranch == [][ElifEndsBranchStep]_vars

\* C29: after any #define and #undef on taken paths, a #define of a defined
\* name included, the context holds at most one definition per name and
\* Context::lookup of a name returns Defined or Undefined and does not fail;
\* #undef removes the name, and the walk never ends in the panic of lookup.
OneDefinePerName ==
    /\ \A name \in DOMAIN defines : Len(defines[name]) = 1
    /\ ctx_lookup(defines, "A").t \in {"Defined", "Undefined"}
    /\ p2state # MultipleDefines

(***************************************************************************)
(* Properties of constant folding.                                         *)
(***************************************************************************)
\* The integer an operand folds to, <<>> when it folds to no integer.
FoldsTo(e) ==
    LET o == constant_fold(e, fctx)
    IN IF o.t = "Integer" THEN <<o.i>> ELSE <<>>

\* C16: constant folding a Binary Divide or Modulo whose operands fold to
\* integers, the right one to zero, yields the error value
\* EvalError::DivisionByZero: the call returns it, it does not panic and it
\* does not return an Expr.
DivisionByZeroIsError ==
    (/\ fr.t # "pending" /\ fx.t = "Binary" /\ fx.op \in {"Divide", "Modulo"}
     /\ FoldsTo(fx.l) # <<>> /\ FoldsTo(fx.r) = <<0>>)
        => fr = [t |-> "EvalError", e |-> "DivisionByZero"]

\* The children of the And or Or node e, after folding each.
FoldedChildren(e) == [i \in 1..Len(e.c) |-> constant_fold(e.c[i], fctx)]

\* C22: constant folding normalises And and Or: an And with a child that
\* folds to False folds to False, an Or with a child that folds to True folds
\* to True, children that fold to the identity (True in And, False in Or) are
\* dropped, and a child of the same operator is flattened into its parent:
\* the result has no And directly inside And and no Or directly inside Or.
AndOrNormalised ==
    (fr.t \notin {"pending", "idle"} /\ ~Aborted(fr) /\ fx.t \in {"And", "Or"}) =>
        LET c == FoldedChildren(fx)
            absorbing == IF fx.t = "And" THEN False ELSE True
            identity == IF fx.t = "And" THEN True ELSE False
        IN /\ (\E i \in 1..Len(c) : c[i] = absorbing) => fr = absorbing
           /\ fr.t = fx.t =>
                \A i \in 1..Len(fr.c) : fr.c[i] # identity /\ fr.c[i].t # fx.t

\* C24: constant folding Not of an integer literal is C's logical negation:
\* Not(Integer 0) folds to a true value, Not(Integer i) for i # 0 to a false
\* one: truthiness(fold(Not(Integer i))) is the negation of
\* truthiness(Integer i).
NotIntegerIsLogical ==
    (fr.t \notin {"pending", "idle"} /\ fx.t = "Not" /\ fx.v.t = "Integer") =>
        truthiness(fr) = <<~truthiness(fx.v)[1]>>


=============================================================================
